---- MODULE Spec2Model ----
(***************************************************************************)
(* Codigo Facilito downloader: the download command of coco.py (standalone *)
(* video, course and bootcamp traversals with their bounded retry loops)   *)
(* and the bootcamp tree builder of facilito/utils/collectors.py, with the *)
(* text helpers of facilito/helpers.py they rest on.                       *)
(*                                                                         *)
(* A text is a sequence of characters, each character a string token.  A   *)
(* URL is a sequence of tokens: the base domain, a path marker, and plain  *)
(* characters.  A raised Python exception is a value [exc |-> name].       *)
(***************************************************************************)
EXTENDS Integers, Sequences, FiniteSets, TLC

\* ------------------------------------------------------------------ bounds

\* nodes (sections or modules, classes, videos) of a course or bootcamp tree
MaxNodes == 6
\* module containers of a bootcamp page
MaxModules == 2
\* hyperlinks of a module container, and of a class page
MaxLinks == 2
\* class hyperlinks of a whole bootcamp page
MaxClassLinks == 2
\* tokens of a URL given to the classifier
MaxUrlLen == 4
\* section containers and hyperlinks of a course page
MaxDomNodes == 5

\* save_article calls of one run
MaxSaves == 2
\* calls of video(), course() and bootcamp() on one Client
MaxCalls == 2
\* the largest ordinal given to save_article
MaxSequence == 1

\* word pieces of a label text given to the text helpers
MaxPieces == 3

\* the largest ordinal of a section, module, class or video in a path
MaxOrdinal == 10

\* --------------------------------------------------------------- constants

BASE_URL == "https://codigofacilito.com"

DOWNLOADS_DIR == "downloads"

\* coco.py: max_retries = 5 in each of the three download loops
max_retries == 5

\* -------------------------------------------------------------------- text

\* str.strip() whitespace
Whitespace == {" ", "\n", "\t", "\r"}

\* consts.SYMBOLS_NAME; the four non-ASCII symbols are named tokens
Symbols ==
    { "<", ">", ".", ":", ";", "'", "\"", "/", "\\", "|", "?", "!",
      "inverted_exclamation", "inverted_question", "ordinal_masculine", "%",
      "&", "~", "ordinal_feminine", "*", "+", "=", "@", "#", "$", "[", "]",
      "{", "}", "(", ")" }

DigitChars == <<"0", "1", "2", "3", "4", "5", "6", "7", "8", "9">>

IsDigit(c) == \E k \in DOMAIN DigitChars : DigitChars[k] = c

DigitVal(c) == (CHOOSE k \in DOMAIN DigitChars : DigitChars[k] = c) - 1

LowerChars ==
    <<"a", "b", "c", "d", "e", "f", "g", "h", "i", "j", "k", "l", "m", "n",
      "o", "p", "q", "r", "s", "t", "u", "v", "w", "x", "y", "z", "o_acute">>

UpperChars ==
    <<"A", "B", "C", "D", "E", "F", "G", "H", "I", "J", "K", "L", "M", "N",
      "O", "P", "Q", "R", "S", "T", "U", "V", "W", "X", "Y", "Z", "O_acute">>

\* str.upper() and str.lower() of one character
ToUpper(c) ==
    IF \E k \in DOMAIN LowerChars : LowerChars[k] = c
    THEN UpperChars[CHOOSE k \in DOMAIN LowerChars : LowerChars[k] = c]
    ELSE c

ToLower(c) ==
    IF \E k \in DOMAIN UpperChars : UpperChars[k] = c
    THEN LowerChars[CHOOSE k \in DOMAIN UpperChars : UpperChars[k] = c]
    ELSE c

\* \w of a regular expression
IsWordChar(c) == IsDigit(c) \/ c = "_" \/ ToLower(c) # c \/ ToUpper(c) # c

RECURSIVE LStrip(_)
LStrip(s) == IF s # <<>> /\ Head(s) \in Whitespace THEN LStrip(Tail(s)) ELSE s

RECURSIVE RStrip(_)
RStrip(s) ==
    IF s # <<>> /\ s[Len(s)] \in Whitespace
    THEN RStrip(SubSeq(s, 1, Len(s) - 1))
    ELSE s

Strip(s) == RStrip(LStrip(s))

\* a returned value, a raised exception
Ok(v) == [exc |-> "none", val |-> v]

Raise(e, v) == [exc |-> e, val |-> v]

\* re.sub(consts.NEWLINE_NAME, " ", text).strip()
clean_new_line(text) ==
    Strip([k \in DOMAIN text |-> IF text[k] = "\n" THEN " " ELSE text[k]])

NotSymbol(c) == c \notin Symbols

\* re.sub(consts.SYMBOLS_NAME, "", text).strip()
clean_string(text) == Strip(SelectSeq(text, NotSymbol))

\* title[0].upper() + title[1:] raises IndexError on the empty string
clean_title(title) ==
    LET t == clean_string(clean_new_line(title))
    IN  IF t = <<>>
        THEN Raise("IndexError", <<>>)
        ELSE Ok(<<ToUpper(t[1])>> \o Tail(t))

RECURSIVE Digits(_)
Digits(n) ==
    IF n < 10 THEN <<DigitChars[n + 1]>>
    ELSE Digits(n \div 10) \o <<DigitChars[(n % 10) + 1]>>

\* f"{n:02d}"
Format02d(n) ==
    IF n < 0 THEN <<"-">> \o Digits(0 - n)
    ELSE IF n < 10 THEN <<"0">> \o Digits(n)
    ELSE Digits(n)

\* ------------------------------------------------------- ordinal extractors

\* an element handle: query_selector(...) gave it, or gave None
Elem(t) == [present |-> TRUE, text |-> t]

NoElem == [present |-> FALSE, text |-> <<>>]

\* whether the word w (given in lower case) stands at s[k..] between two \b,
\* compared under (?i)
WordAt(s, k, w) ==
    /\ k + Len(w) - 1 <= Len(s)
    /\ \A j \in 1..Len(w) : ToLower(s[k + j - 1]) = w[j]
    /\ k = 1 \/ ~IsWordChar(s[k - 1])
    /\ k + Len(w) > Len(s) \/ ~IsWordChar(s[k + Len(w)])

\* re.search(r"(?i)\b(w1|w2)\b(?:\s*)", s) is not None
HasWord(s, words) == \E k \in 1..Len(s) : \E w \in words : WordAt(s, k, w)

RECURSIVE SkipSpaces(_, _)
SkipSpaces(s, k) ==
    IF k <= Len(s) /\ s[k] \in Whitespace THEN SkipSpaces(s, k + 1) ELSE k

\* re.sub(r"(?i)\b(w1|w2)\b(?:\s*)", "", s): every occurrence, left to right,
\* with the whitespace that follows it
RECURSIVE RemoveWordsFrom(_, _, _)
RemoveWordsFrom(s, k, words) ==
    IF k > Len(s) THEN <<>>
    ELSE IF \E w \in words : WordAt(s, k, w)
    THEN LET w == CHOOSE x \in words : WordAt(s, k, x)
         IN  RemoveWordsFrom(s, SkipSpaces(s, k + Len(w)), words)
    ELSE <<s[k]>> \o RemoveWordsFrom(s, k + 1, words)

RemoveWords(s, words) == RemoveWordsFrom(s, 1, words)

RECURSIVE DigitsValue(_)
DigitsValue(s) ==
    IF s = <<>> THEN 0
    ELSE 10 * DigitsValue(SubSeq(s, 1, Len(s) - 1)) + DigitVal(s[Len(s)])

AllDigits(s) == s # <<>> /\ \A k \in DOMAIN s : IsDigit(s[k])

\* int(s): surrounding whitespace and a sign are accepted, anything else than
\* digits raises ValueError
int(s) ==
    LET t == Strip(s)
        signed == t # <<>> /\ t[1] \in {"+", "-"}
        d == IF signed THEN Tail(t) ELSE t
    IN  IF ~AllDigits(d) THEN Raise("ValueError", 0)
        ELSE IF signed /\ t[1] = "-" THEN Ok(0 - DigitsValue(d))
        ELSE Ok(DigitsValue(d))

\* consts.MODULE_NUMBER and consts.VIDEO_NUMBER: the words of the two patterns
ModuleWords == { <<"m", "o_acute", "d", "u", "l", "o">>, <<"m", "o", "d", "u", "l", "o">> }

VideoWords == { <<"c", "l", "a", "s", "e">> }

RECURSIVE LeadingDigits(_)
LeadingDigits(s) ==
    IF s # <<>> /\ IsDigit(Head(s)) THEN 1 + LeadingDigits(Tail(s)) ELSE 0

\* re.search(consts.CLASS_NAME, p) on a text without newlines: (?m)^(\d+)-\s*(.*)
\* matches at the start only; group 1 the digits, group 2 what follows the
\* hyphen and the whitespace after it
ClassNameMatch(p) ==
    LET n == LeadingDigits(p)
    IN  IF n >= 1 /\ Len(p) > n /\ p[n + 1] = "-"
        THEN [matched |-> TRUE,
              group1 |-> SubSeq(p, 1, n),
              group2 |-> LStrip(SubSeq(p, n + 2, Len(p)))]
        ELSE [matched |-> FALSE, group1 |-> <<>>, group2 |-> <<>>]

\* helpers.clean_class_type(a_tag), on the label element of the hyperlink
clean_class_type(label) ==
    IF ~label.present THEN Ok(<<>>)
    ELSE LET t == clean_title(label.text)
         IN  IF t.exc # "none" THEN Raise(t.exc, <<>>)
             ELSE IF ~ClassNameMatch(t.val).matched THEN Ok(<<>>)
             ELSE Ok(ClassNameMatch(t.val).group2)

\* helpers.clean_class_sequence(a_tag)
clean_class_sequence(label) ==
    IF ~label.present THEN Ok(0)
    ELSE LET t == clean_title(label.text)
         IN  IF t.exc # "none" THEN Raise(t.exc, 0)
             ELSE IF ~ClassNameMatch(t.val).matched THEN Ok(0)
             ELSE int(ClassNameMatch(t.val).group1)

\* helpers.clean_module_sequence(li_tag), on the span of the container
clean_module_sequence(span) ==
    IF ~span.present THEN Ok(0)
    ELSE LET t == clean_title(span.text)
         IN  IF t.exc # "none" THEN Raise(t.exc, 0)
             ELSE int(RemoveWords(t.val, ModuleWords))

\* helpers.clean_module_title(li_tag), on the h4 of the container
clean_module_title(h4) ==
    IF ~h4.present THEN Ok(<<>>) ELSE clean_title(h4.text)

\* helpers.clean_video_sequence(a_tag), on the label element of the hyperlink
clean_video_sequence(label) ==
    IF ~label.present THEN Ok(0)
    ELSE LET t == clean_title(label.text)
         IN  IF t.exc # "none" THEN Raise(t.exc, 0)
             ELSE IF ~HasWord(t.val, VideoWords) THEN Ok(0)
             ELSE int(RemoveWords(t.val, VideoWords))

\* helpers.clean_video_title(a_tag), on the title element of the hyperlink
clean_video_title(title) ==
    IF ~title.present THEN Ok(<<>>) ELSE clean_title(title.text)

\* consts.BOOTCAMP_NAME: the word of the pattern
BootcampWord == <<"b", "o", "o", "t", "c", "a", "m", "p">>

\* (.*): what stands from s[k] up to the first newline
RECURSIVE UpToNewline(_, _)
UpToNewline(s, k) ==
    IF k > Len(s) \/ s[k] = "\n" THEN <<>>
    ELSE <<s[k]>> \o UpToNewline(s, k + 1)

\* re.search(r"(?i)\bBootcamp\b(?:\s*de\s*)?(.*)", s): the leftmost word, the
\* optional "de" with the whitespace around it, group 1 the rest of the line
BootcampNameMatch(s) ==
    IF ~HasWord(s, {BootcampWord})
    THEN [matched |-> FALSE, group1 |-> <<>>]
    ELSE LET k == CHOOSE x \in 1..Len(s) :
                    /\ WordAt(s, x, BootcampWord)
                    /\ \A y \in 1..(x - 1) : ~WordAt(s, y, BootcampWord)
             p == k + Len(BootcampWord)
             q == SkipSpaces(s, p)
             de == /\ q + 1 <= Len(s)
                   /\ ToLower(s[q]) = "d"
                   /\ ToLower(s[q + 1]) = "e"
         IN  [matched |-> TRUE,
              group1 |-> IF de THEN UpToNewline(s, SkipSpaces(s, q + 2))
                         ELSE UpToNewline(s, p)]

\* helpers.clean_bootcamp_title
clean_bootcamp_title(bootcamp_title) ==
    IF BootcampNameMatch(bootcamp_title).matched
    THEN clean_title(BootcampNameMatch(bootcamp_title).group1)
    ELSE clean_title(clean_new_line(bootcamp_title))

\* ------------------------------------------------------------ URL classifier

\* a pattern that lets other text stand between the domain and the marker
MatchesKind_marker_anywhere(url, marker) ==
    /\ Len(url) >= 3
    /\ url[1] = BASE_URL
    /\ \E k \in 2..(Len(url) - 1) : url[k] = marker /\ url[k + 1] # "\n"

\* pattern.match(url) of r"https://codigofacilito\.com/<kind>/.+": anchored at
\* the start only, and .+ asks for one more character that is not a newline.
MatchesKind(url, marker) ==
    /\ Len(url) >= 3
    /\ url[1] = BASE_URL
    /\ url[2] = marker
    /\ url[3] # "\n"

is_article_url(url) == MatchesKind(url, "/articulos/")

is_video_url(url) == MatchesKind(url, "/videos/")

is_course_url(url) == MatchesKind(url, "/cursos/")

is_bootcamp_url(url) == MatchesKind(url, "/programas/")

\* ------------------------------------------------------------------- trees

\* VideoURL of a course section, BootcampVideo of a class: what the builders
\* store, url = BASE_URL + href.
VideoRefs ==
    { [title |-> <<"v">>, url |-> <<BASE_URL, "/videos/", "x">>],
      [title |-> <<"a">>, url |-> <<BASE_URL, "/articulos/", "x">>],
      [title |-> <<"o">>, url |-> <<BASE_URL, "/otros/", "x">>] }

SeqUpTo(S, n) == UNION { [1..k -> S] : k \in 0..n }

\* the sequences of CourseSection(title, videos_url) of at most n nodes
RECURSIVE SectionForest(_)
SectionForest(n) ==
    { <<>> } \cup
    UNION { LET R == SectionForest(n - 1 - j)
            IN  { <<[title |-> <<"s">>, videos_url |-> v]>> \o rest :
                    v \in [1..j -> VideoRefs], rest \in R } :
            j \in 0..(n - 1) }

\* the sequences of BootcampClass(videos) of at most n nodes
RECURSIVE ClassForest(_)
ClassForest(n) ==
    { <<>> } \cup
    UNION { LET R == ClassForest(n - 1 - j)
            IN  { <<[videos |-> v]>> \o rest :
                    v \in [1..j -> VideoRefs], rest \in R } :
            j \in 0..(n - 1) }

RECURSIVE ClassNodes(_)
ClassNodes(classes) ==
    IF classes = <<>> THEN 0
    ELSE 1 + Len(Head(classes).videos) + ClassNodes(Tail(classes))

\* the sequences of BootcampModule(classes) of at most n nodes
RECURSIVE ModuleForest(_)
ModuleForest(n) ==
    { <<>> } \cup
    UNION { LET R == ModuleForest(n - 1 - m)
            IN  { <<[classes |-> c]>> \o rest :
                    c \in { x \in ClassForest(m) : ClassNodes(x) = m },
                    rest \in R } :
            m \in 0..(n - 1) }

\* Course.sections
CourseTrees == SectionForest(MaxNodes)

\* Bootcamp.modules
BootcampTrees == ModuleForest(MaxNodes)

\* ------------------------------------------------------------------- state

VARIABLES
    mode,            \* which branch of download(): "video", "course", "bootcamp"
    tree,            \* course.sections, bootcamp.modules, or the one video
    pc,              \* where the command is
    i1, i2, i3,      \* loop positions: section/module, video/class, video
    attempt,         \* the retry loop's variable
    evlog,           \* refresh and download calls made for the current item
    notices,         \* what the retry loop printed for the current item
    steps,           \* login, build and confirmation, as far as they went
    result,          \* how the last item ended
    lst_errors_url,  \* the course branch's error list
    failed,          \* positions of the items that ended in a failure
    visited,         \* the items taken up so far, in the order they were
    snapshot,        \* the save_article call made for the current item
    clients,         \* the Client sessions that are open
    sessions,        \* the sessions entered, each with what its __exit__ did
    crash            \* the exception that escaped download(), or "none"

ovars ==
    <<mode, tree, pc, i1, i2, i3, attempt, evlog, notices, result,
      lst_errors_url, failed, visited, snapshot, clients, crash, steps,
      sessions>>

\* the bootcamp builder, collectors.get_bootcamp_detail_sync
VARIABLES
    bpc,               \* where the builder is
    containers,        \* the module containers (li_tag) read so far
    li,                \* the container of the current iteration
    cur_module,        \* module_title and module_sequence of the iteration
    a_tag,             \* the class hyperlink of the current iteration
    acount,            \* hyperlinks of the current container read so far
    cur_class,         \* class_title, class_sequence, class_url
    all_modules,       \* _get_modules' list
    all_classes,       \* _get_classes' list
    all_videos,        \* what _get_videos returned for the current class
    extraction_failed, \* whether _get_videos caught an exception
    class_page,        \* what the isolated page showed to _get_videos
    open_pages,        \* isolated pages (new_page) that are open
    opened,            \* the hyperlinks a page was opened for
    seen,              \* the hyperlinks whose iteration is over
    marker_files,      \* the files _generate_file_course wrote
    berr,              \* the exception the builder raised, or "none"
    raised_at          \* the step that raised it

bvars ==
    <<bpc, containers, li, cur_module, a_tag, acount, cur_class, all_modules,
      all_classes, all_videos, extraction_failed, class_page, open_pages,
      opened, seen, marker_files, berr, raised_at>>

\* the URL classifier and the leaf extractor called on one URL
VARIABLES
    u_pc,     \* "input", "classified", "twice", "fetched"; "idle" elsewhere
    u_url,    \* the URL string
    u_kinds,  \* the is_*_url tests that answered True
    u_again,  \* the same tests, asked a second time
    u_page,   \* the page get_video_detail_sync navigated to
    u_video   \* what get_video_detail_sync returned or raised

uvars == <<u_pc, u_url, u_kinds, u_again, u_page, u_video>>

\* the course builder, collectors.get_course_detail_sync
VARIABLES
    c_pc,        \* "input", "sections", "done"; "idle" elsewhere
    c_dom,       \* the div.f-top-16 containers of the course page
    c_url,       \* the URL get_course_detail_sync was called with
    c_goto,      \* how page.goto ends for it
    c_sections,  \* what _get_sections returned
    c_out        \* what get_course_detail_sync returned or raised

cvars == <<c_pc, c_dom, c_url, c_goto, c_sections, c_out>>

\* Client.save_article and the files it finds and leaves on disk
VARIABLES
    a_pc,     \* "ready" while save_article may be called; "idle" elsewhere
    a_site,   \* page.title() of the page of each article URL
    a_files,  \* the files on disk: name -> [size, writes]
    a_log     \* the save_article calls made so far, with what each returned

avars == <<a_pc, a_site, a_files, a_log>>

\* one call of a helper of helpers.py, or of a path the command builds
VARIABLES
    h_pc,     \* "ready", "done", "again"; "idle" elsewhere
    h_op,     \* the helper called
    h_arg,    \* its argument
    h_out,    \* the text it returned, or what it raised
    h_again,  \* what it returned or raised on its own result
    h_seq,    \* the ordinal it returned, or what it raised
    h_path    \* the directory and the names it built

hvars == <<h_pc, h_op, h_arg, h_out, h_again, h_seq, h_path>>

\* one Client object of core.py, its with block and the calls made on it
VARIABLES
    k_pc,     \* "new", "entered", "exited"; "idle" elsewhere
    k_attrs,  \* the attributes __enter__ has set on the object
    k_live,   \* the playwright objects that are running or open
    k_ops,    \* what __exit__ did, in order
    k_left,   \* how the with block was left
    k_page,   \* where the page is and the navigations it was asked for
    k_call,   \* the last call of video(), course() or bootcamp()
    k_get,    \* the last access to a property
    k_n       \* calls made so far

kvars == <<k_pc, k_attrs, k_live, k_ops, k_left, k_page, k_call, k_get, k_n>>

\* ------------------------------------------------------------ leaf extractor

\* What the video page shows once page.goto has been asked for it: the
\* title element, and the value attributes of the video_id and course_id
\* inputs (absent when get_attribute gives None).
PageStates ==
    { [goto |-> g, title |-> t, video_id |-> v, course_id |-> c] :
        g \in {"ok", "timeout"},
        t \in { Elem(<<"t">>), Elem(<<"?">>), NoElem },
        v \in { Elem(<<"7">>), NoElem },
        c \in { Elem(<<"3">>), NoElem } }

\* a locator that puts the two ids the other way round
M3u8Url_swapped(course_id, video_id) ==
    <<"https://video-storage.codigofacilito.com", "/hls/">>
        \o video_id \o <<"/">> \o course_id \o <<"/playlist.m3u8">>

\* f"{base_m3u8_url}/hls/{course_id}/{video_id}/playlist.m3u8"
M3u8Url(course_id, video_id) ==
    <<"https://video-storage.codigofacilito.com", "/hls/">>
        \o course_id \o <<"/">> \o video_id \o <<"/playlist.m3u8">>

Contains(url, part) == \E k \in 1..Len(url) : url[k] = part

\* if "/videos/" in url: STREAMING; if "/articulos/" in url: READING
MediaTypeOf(url) ==
    IF Contains(url, "/articulos/") THEN "READING"
    ELSE IF Contains(url, "/videos/") THEN "STREAMING"
    ELSE "None"

\* collectors.get_video_detail_sync: the URL test, then page.goto (which
\* raises playwright's TimeoutError after navigation_timeout), then the
\* title inside try / except Exception, then the two ids.
get_video_detail_sync(url, page) ==
    IF ~is_video_url(url) THEN Raise("URLError", <<>>)
    ELSE IF page.goto = "timeout" THEN Raise("TimeoutError", <<>>)
    ELSE IF ~page.title.present THEN Raise("VideoError", <<>>)
    ELSE IF clean_title(page.title.text).exc # "none"
    THEN Raise("VideoError", <<>>)
    ELSE IF ~page.video_id.present \/ ~page.course_id.present
    THEN Raise("VideoError", <<>>)
    ELSE Ok([id |-> page.video_id.text,
             url |-> url,
             m3u8_url |-> M3u8Url(page.course_id.text, page.video_id.text),
             title |-> clean_title(page.title.text).val,
             media_type |-> MediaTypeOf(url)])

\* ------------------------------------------------------------- orchestrator

\* the retry loops: range(1, max_retries + 1) for a standalone video and a
\* course, range(max_retries) for a bootcamp
RangeStart(m) == IF m = "bootcamp" THEN 0 ELSE 1

RangeStop(m) == IF m = "bootcamp" THEN max_retries ELSE max_retries + 1

\* a loop that goes on for as long as the notice test holds, whatever its range
RetriesAfterFailure_by_notice_only(m, a) == a < max_retries

\* except DownloadError: "if attempt < max_retries" prints the retry notice and
\* the for loop goes on while its range lasts; else the final notice and break
RetriesAfterFailure(m, a) == a < max_retries /\ a + 1 < RangeStop(m)

\* except DownloadError: the retry notice (VIDEO_DL_ERROR_1 and _2) if
\* attempt < max_retries, else VIDEO_DL_ERROR_MAX
Notice(a) == IF a < max_retries THEN "VIDEO_DL_ERROR_RETRY" ELSE "VIDEO_DL_ERROR_MAX"

\* an attempt that refreshes the cookies on the first iteration only
AttemptStart_first_only(m, a) ==
    IF a = RangeStart(m) THEN "refresh" ELSE "download"

\* where the iteration with loop variable a starts: client.refresh_cookies()
\* comes before video.download() inside the try of every iteration
AttemptStart(m, a) == "refresh"

\* the exceptions the call of client.video() is wrapped for
CaughtOnFetch(m) ==
    IF m = "course" THEN {"URLError", "VideoError"} ELSE {"VideoError"}

\* the failures that append to lst_errors_url
AppendsError(m, r) == m = "course" /\ r = "URLError"

Pos == <<i1, i2, i3>>

CurSection == tree[i1]

CurRef ==
    IF mode = "course" THEN tree[i1].videos_url[i2]
    ELSE IF mode = "bootcamp" THEN tree[i1].classes[i2].videos[i3]
    ELSE tree[1]

\* the url argument of the download command
CommandUrl(m) ==
    IF m = "course" THEN <<BASE_URL, "/cursos/", "x">>
    ELSE IF m = "bootcamp" THEN <<BASE_URL, "/programas/", "x">>
    ELSE <<BASE_URL, "/videos/", "x">>

NoSnapshot == [url |-> <<>>, sequence |-> 0, item |-> <<>>, client |-> "none"]

\* download_article(url=url, path_dir=..., sequence=pfx_v) and in it
\* client.save_article(url=url, ..., sequence=sequence): url is the command's
\* argument
ArticleSnapshot(command_url, video_url, pfx_v) ==
    [url |-> command_url, sequence |-> pfx_v, item |-> video_url.url,
     client |-> "article"]

\* an __exit__ that leaves playwright running
client_exit_without_stop == <<"context.close", "browser.close">>

\* Client.__exit__: self._context.close(), self._browser.close(),
\* self._playwright.stop()
client_exit == <<"context.close", "browser.close", "playwright.stop">>

\* with Client(headless=headless) as client: the block is entered when the
\* branch of the command is, and left, closing the session, by raise
\* typer.Exit() or by an exception
CommandSession ==
    LET entered == IF pc = "start"
                   THEN <<[client |-> "command", ops |-> <<>>]>>
                   ELSE sessions
        left == IF pc' \in {"exit", "crashed"}
                THEN {"command", "article"}
                ELSE {"article"}
    IN  /\ clients' = IF pc' \in {"exit", "crashed"} THEN {} ELSE {"command"}
        /\ sessions' = [k \in DOMAIN entered |->
                          IF entered[k].client \in left /\ entered[k].ops = <<>>
                          THEN [entered[k] EXCEPT !.ops = client_exit]
                          ELSE entered[k]]

\* the item the loops are at
Visit == [pos |-> Pos, url |-> CurRef.url]

\* an entry that takes its URL from the command's argument
ErrorEntry_of_command_url(section, ref) ==
    [section |-> section.title, video_title |-> ref.title,
     url |-> CommandUrl(mode)]

ErrorEntry(section, ref) ==
    [section |-> section.title, video_title |-> ref.title, url |-> ref.url]

\* loops that step over the item that follows the current one
AfterItem_skips ==
    IF mode = "video" THEN [pc |-> "exit", i2 |-> i2, i3 |-> i3]
    ELSE IF mode = "course" THEN [pc |-> "item", i2 |-> i2 + 2, i3 |-> i3]
    ELSE [pc |-> "item", i2 |-> i2, i3 |-> i3 + 2]

\* where the loops go once the current item is over
AfterItem ==
    IF mode = "video" THEN [pc |-> "exit", i2 |-> i2, i3 |-> i3]
    ELSE IF mode = "course" THEN [pc |-> "item", i2 |-> i2 + 1, i3 |-> i3]
    ELSE [pc |-> "item", i2 |-> i2, i3 |-> i3 + 1]

NoModule == [title |-> <<>>, sequence |-> 0]

NoClass == [title |-> <<>>, sequence |-> 0, url |-> <<>>]

NoContainer == [marker |-> FALSE, h4 |-> NoElem, span |-> NoElem]

NoLink == [p_title |-> NoElem, label |-> NoElem, href |-> <<>>]

NoClassPage == [goto |-> "none", container |-> FALSE, links |-> <<>>]

BuilderFields(at) ==
    /\ bpc = at
    /\ containers = <<>>
    /\ li = NoContainer
    /\ cur_module = NoModule
    /\ a_tag = NoLink
    /\ acount = 0
    /\ cur_class = NoClass
    /\ all_modules = <<>>
    /\ all_classes = <<>>
    /\ all_videos = <<>>
    /\ extraction_failed = FALSE
    /\ class_page = NoClassPage
    /\ open_pages = 0
    /\ opened = <<>>
    /\ seen = <<>>
    /\ marker_files = <<>>
    /\ berr = "none"
    /\ raised_at = "none"

\* the builder is not running
BuilderIdle == BuilderFields("idle")

NoPage == [goto |-> "none", title |-> NoElem, video_id |-> NoElem,
           course_id |-> NoElem]

ClassifierFields(at, url) ==
    /\ u_pc = at
    /\ u_url = url
    /\ u_kinds = {}
    /\ u_again = {}
    /\ u_page = NoPage
    /\ u_video = Ok(<<>>)

\* no URL is being classified
ClassifierIdle == ClassifierFields("idle", <<>>)

CourseBuilderFields(at, dom) ==
    /\ c_pc = at
    /\ c_dom = dom
    /\ c_url = <<>>
    /\ c_goto = "none"
    /\ c_sections = <<>>
    /\ c_out = Ok(<<>>)

\* no course is being built
CourseBuilderIdle == CourseBuilderFields("idle", <<>>)

NoFiles == [n \in {} |-> [size |-> 0, writes |-> 0]]

ArticleFields(at) ==
    /\ a_pc = at
    /\ a_files = NoFiles
    /\ a_log = <<>>

\* save_article is not being called
ArticleIdle == ArticleFields("idle") /\ a_site = <<>>

NoPath == [dir |-> <<>>, module_dir |-> <<>>, class_dir |-> <<>>, name |-> <<>>]

HelperFields(at) ==
    /\ h_pc = at
    /\ h_op = "none"
    /\ h_arg = [none |-> TRUE]
    /\ h_out = Ok(<<>>)
    /\ h_again = Ok(<<>>)
    /\ h_seq = Ok(0)
    /\ h_path = NoPath

\* no helper is being called
HelperIdle == HelperFields("idle")

\* a page that was not asked to navigate yet
BlankPage == [location |-> <<>>, gotos |-> 0]

NoCall ==
    [op |-> "none", url |-> <<>>, before |-> BlankPage, exc |-> "none",
     collected |-> 0]

NoGet == [name |-> "none", at |-> "none", exc |-> "none", live |-> FALSE]

ClientFields(at) ==
    /\ k_pc = at
    /\ k_attrs = {}
    /\ k_live = {}
    /\ k_ops = <<>>
    /\ k_left = "none"
    /\ k_page = BlankPage
    /\ k_call = NoCall
    /\ k_get = NoGet
    /\ k_n = 0

\* no Client object is looked at
ClientIdle == ClientFields("idle")

Calls(log) == Len(SelectSeq(log, LAMBDA e : e # "refresh"))

Refreshes(log) == Len(SelectSeq(log, LAMBDA e : e = "refresh"))

Init ==
    /\ HelperIdle
    /\ ClientIdle
    /\ ArticleIdle
    /\ mode \in {"video", "course", "bootcamp"}
    /\ tree \in CASE mode = "video" ->
                     { <<r>> : r \in { x \in VideoRefs : is_video_url(x.url) } }
                  [] mode = "course" -> CourseTrees
                  [] OTHER -> BootcampTrees
    /\ pc = "start"
    /\ i1 = 1 /\ i2 = 1 /\ i3 = 1
    /\ attempt = 0
    /\ evlog = <<>>
    /\ notices = <<>>
    /\ steps = <<>>
    /\ result = "none"
    /\ lst_errors_url = <<>>
    /\ failed = <<>>
    /\ visited = <<>>
    /\ snapshot = NoSnapshot
    /\ clients = {}
    /\ sessions = <<>>
    /\ crash = "none"
    /\ BuilderIdle
    /\ ClassifierIdle
    /\ CourseBuilderIdle

\* with Client() as client: client.login(); client.course(url) or
\* client.bootcamp(url); the table.  CourseError and BootcampError end the
\* command.
Build ==
    /\ pc = "start"
    /\ mode \in {"course", "bootcamp"}
    /\ \E built \in BOOLEAN :
         /\ pc' = IF built THEN "confirm" ELSE "exit"
         /\ steps' = IF built THEN <<"login", "build">> ELSE <<"login">>
    /\ UNCHANGED <<visited, snapshot, mode, tree, i1, i2, i3, attempt, evlog, notices, result,
                   lst_errors_url, failed, crash>>
    /\ CommandSession

\* a command that goes on whatever was answered
AfterConfirm_whatever_the_answer(m, confirm_download) ==
    IF m = "course" THEN "section" ELSE "module"

\* if not confirm_download: raise typer.Exit(); else the outer loop
AfterConfirm(m, confirm_download) ==
    IF ~confirm_download THEN "exit"
    ELSE IF m = "course" THEN "section" ELSE "module"

\* typer.confirm("Would you like to download?")
Confirm ==
    /\ pc = "confirm"
    /\ \E confirm_download \in BOOLEAN :
         /\ pc' = AfterConfirm(mode, confirm_download)
         /\ steps' = Append(steps, IF confirm_download THEN "confirmed"
                                                       ELSE "declined")
    /\ UNCHANGED <<visited, snapshot, mode, tree, i1, i2, i3, attempt, evlog, notices, result,
                   lst_errors_url, failed, crash>>
    /\ CommandSession

\* for pfx_s, section in enumerate(course_sections, start=1):
\*     section.title = helpers.clean_title(section.title)
CourseSection ==
    /\ pc = "section"
    /\ mode = "course"
    /\ IF i1 > Len(tree)
       THEN /\ pc' = "report"
            /\ UNCHANGED <<tree, i2, crash>>
       ELSE LET t == clean_title(tree[i1].title)
            IN  IF t.exc # "none"
                THEN /\ pc' = "crashed"
                     /\ crash' = t.exc
                     /\ UNCHANGED <<tree, i2>>
                ELSE /\ pc' = "item"
                     /\ tree' = [tree EXCEPT ![i1].title = t.val]
                     /\ i2' = 1
                     /\ UNCHANGED crash
    /\ UNCHANGED <<visited, snapshot, mode, i1, i3, attempt, evlog, notices, steps, result, lst_errors_url, failed>>
    /\ CommandSession

\* the inner for loop of a section is over
CourseSectionEnd ==
    /\ pc = "item"
    /\ mode = "course"
    /\ i2 > Len(tree[i1].videos_url)
    /\ i1' = i1 + 1
    /\ pc' = "section"
    /\ UNCHANGED <<visited, snapshot, mode, tree, i2, i3, attempt, evlog, notices, steps, result, lst_errors_url,
                   failed, crash>>
    /\ CommandSession

\* for module in bootcamp.modules:
BootcampModuleLoop ==
    /\ pc = "module"
    /\ mode = "bootcamp"
    /\ IF i1 > Len(tree)
       THEN pc' = "exit" /\ UNCHANGED i2
       ELSE pc' = "class" /\ i2' = 1
    /\ UNCHANGED <<visited, snapshot, mode, tree, i1, i3, attempt, evlog, notices, steps, result, lst_errors_url,
                   failed, crash>>
    /\ CommandSession

\* for class_ in module.classes:
BootcampClassLoop ==
    /\ pc = "class"
    /\ mode = "bootcamp"
    /\ IF i2 > Len(tree[i1].classes)
       THEN pc' = "module" /\ i1' = i1 + 1 /\ UNCHANGED i3
       ELSE pc' = "item" /\ i3' = 1 /\ UNCHANGED i1
    /\ UNCHANGED <<visited, snapshot, mode, tree, i2, attempt, evlog, notices, steps, result, lst_errors_url,
                   failed, crash>>
    /\ CommandSession

\* for video in class_.videos: is over
BootcampClassEnd ==
    /\ pc = "item"
    /\ mode = "bootcamp"
    /\ i3 > Len(tree[i1].classes[i2].videos)
    /\ i2' = i2 + 1
    /\ pc' = "class"
    /\ UNCHANGED <<visited, snapshot, mode, tree, i1, i3, attempt, evlog, notices, steps, result, lst_errors_url,
                   failed, crash>>
    /\ CommandSession

ItemInRange ==
    /\ pc = "item"
    /\ IF mode = "course"
       THEN i2 <= Len(tree[i1].videos_url)
       ELSE i3 <= Len(tree[i1].classes[i2].videos)

\* if helpers.is_article_url(video_url.url): download_article(url=url, ...)
\* whose body is "with Client(headless=False, my_browser="chromium") as
\* client: client.login()": a session of its own, inside the command's
CourseArticleOpen ==
    /\ ItemInRange
    /\ mode = "course"
    /\ is_article_url(CurRef.url)
    /\ pc' = "article"
    /\ clients' = clients \cup {"article"}
    /\ sessions' = Append(sessions, [client |-> "article", ops |-> <<>>])
    /\ evlog' = <<>>
    /\ notices' = <<>>
    /\ UNCHANGED steps
    /\ snapshot' = NoSnapshot
    /\ visited' = Append(visited, Visit)
    /\ result' = "pending"
    /\ UNCHANGED <<mode, tree, i1, i2, i3, attempt, lst_errors_url, failed,
                   crash>>

\* client.save_article(...) in download_article, and the end of its with
\* block.  download_article returns True when save_article gave an article;
\* when it gave None, the error message reads article.title of None.
CourseArticle ==
    /\ pc = "article"
    /\ \E article \in {"article", "none"} :
         IF article = "article"
         THEN /\ pc' = AfterItem.pc
              /\ i2' = AfterItem.i2
              /\ result' = "article_ok"
              /\ UNCHANGED <<failed, crash>>
         ELSE /\ pc' = "crashed"
              /\ crash' = "AttributeError"
              /\ failed' = Append(failed, Pos)
              /\ result' = "snapshot_none"
              /\ UNCHANGED i2
    /\ snapshot' = ArticleSnapshot(CommandUrl(mode), CurRef, i2)
    /\ CommandSession
    /\ UNCHANGED <<mode, tree, i1, i3, attempt, evlog, notices, steps, visited, lst_errors_url>>

\* video = client.video(url) with the except clauses around it
FetchVideo ==
    /\ \/ pc = "start" /\ mode = "video"
       \/ ItemInRange /\ (mode = "course" => ~is_article_url(CurRef.url))
    /\ \E page \in PageStates :
         LET r == get_video_detail_sync(CurRef.url, page).exc
         IN  IF r = "none"
             THEN /\ pc' = AttemptStart(mode, RangeStart(mode))
                  /\ attempt' = RangeStart(mode)
                  /\ result' = "pending"
                  /\ UNCHANGED <<i2, i3, lst_errors_url, failed, crash>>
             ELSE IF r \in CaughtOnFetch(mode)
             THEN /\ pc' = AfterItem.pc
                  /\ i2' = AfterItem.i2
                  /\ i3' = AfterItem.i3
                  /\ result' = r
                  /\ failed' = Append(failed, Pos)
                  /\ lst_errors_url' =
                       IF AppendsError(mode, r)
                       THEN Append(lst_errors_url, ErrorEntry(CurSection, CurRef))
                       ELSE lst_errors_url
                  /\ UNCHANGED <<attempt, crash>>
             ELSE /\ pc' = "crashed"
                  /\ crash' = r
                  /\ result' = r
                  /\ failed' = IF r = "URLError" THEN Append(failed, Pos) ELSE failed
                  /\ UNCHANGED <<i2, i3, attempt, lst_errors_url>>
    /\ evlog' = <<>>
    /\ notices' = <<>>
    /\ UNCHANGED steps
    /\ snapshot' = NoSnapshot
    /\ visited' = Append(visited, Visit)
    /\ UNCHANGED <<mode, tree, i1>>
    /\ CommandSession

\* client.refresh_cookies()
RefreshCookies ==
    /\ pc = "refresh"
    /\ evlog' = Append(evlog, "refresh")
    /\ UNCHANGED <<notices, steps>>
    /\ pc' = "download"
    /\ UNCHANGED <<visited, snapshot, mode, tree, i1, i2, i3, attempt, result, lst_errors_url,
                   failed, crash>>
    /\ CommandSession

\* video.download(...): returns, or raises DownloadError
VideoDownload ==
    /\ pc = "download"
    /\ \E downloaded \in BOOLEAN :
         IF downloaded
         THEN /\ evlog' = Append(evlog, "download_ok")
              /\ notices' = Append(notices, "VIDEO_DL_DONE")
              /\ UNCHANGED steps
              /\ result' = "succeeded"
              /\ pc' = AfterItem.pc
              /\ i2' = AfterItem.i2
              /\ i3' = AfterItem.i3
              /\ UNCHANGED <<attempt, failed>>
         ELSE /\ evlog' = Append(evlog, "download_fail")
              /\ notices' = Append(notices, Notice(attempt))
              /\ UNCHANGED steps
              /\ IF RetriesAfterFailure(mode, attempt)
                 THEN /\ attempt' = attempt + 1
                      /\ pc' = AttemptStart(mode, attempt + 1)
                      /\ UNCHANGED <<i2, i3, result, failed>>
                 ELSE /\ result' = "failed"
                      /\ failed' = Append(failed, Pos)
                      /\ pc' = AfterItem.pc
                      /\ i2' = AfterItem.i2
                      /\ i3' = AfterItem.i3
                      /\ UNCHANGED attempt
    /\ UNCHANGED <<visited, snapshot, mode, tree, i1, lst_errors_url, crash>>
    /\ CommandSession

\* if len(lst_errors_url) > 0: the list is printed
Report ==
    /\ pc = "report"
    /\ pc' = "exit"
    /\ UNCHANGED <<visited, snapshot, mode, tree, i1, i2, i3, attempt, evlog, notices, steps, result,
                   lst_errors_url, failed, crash>>
    /\ CommandSession

vars == <<ovars, bvars, uvars, cvars, avars, hvars, kvars>>

Next ==
    \/ Build /\ UNCHANGED <<bvars, uvars, cvars, avars, hvars, kvars>>
    \/ Confirm /\ UNCHANGED <<bvars, uvars, cvars, avars, hvars, kvars>>
    \/ CourseSection /\ UNCHANGED <<bvars, uvars, cvars, avars, hvars, kvars>>
    \/ CourseSectionEnd /\ UNCHANGED <<bvars, uvars, cvars, avars, hvars, kvars>>
    \/ BootcampModuleLoop /\ UNCHANGED <<bvars, uvars, cvars, avars, hvars, kvars>>
    \/ BootcampClassLoop /\ UNCHANGED <<bvars, uvars, cvars, avars, hvars, kvars>>
    \/ BootcampClassEnd /\ UNCHANGED <<bvars, uvars, cvars, avars, hvars, kvars>>
    \/ CourseArticleOpen /\ UNCHANGED <<bvars, uvars, cvars, avars, hvars, kvars>>
    \/ CourseArticle /\ UNCHANGED <<bvars, uvars, cvars, avars, hvars, kvars>>
    \/ FetchVideo /\ UNCHANGED <<bvars, uvars, cvars, avars, hvars, kvars>>
    \/ RefreshCookies /\ UNCHANGED <<bvars, uvars, cvars, avars, hvars, kvars>>
    \/ VideoDownload /\ UNCHANGED <<bvars, uvars, cvars, avars, hvars, kvars>>
    \/ Report /\ UNCHANGED <<bvars, uvars, cvars, avars, hvars, kvars>>

Spec == Init /\ [][Next]_vars

\* the command goes on for as long as it has a step to take: the page, the
\* download and the user at the prompt all answer
FairSpec == Spec /\ WF_vars(Next)

\* ------------------------------------------------------ the download command

\* the leaf at a position of the tree
RefAt(pos) ==
    IF mode = "course" THEN tree[pos[1]].videos_url[pos[2]]
    ELSE tree[pos[1]].classes[pos[2]].videos[pos[3]]

NoSuccess(log) == \A k \in 1..Len(log) : log[k] # "download_ok"

\* C1: in the three download loops the Media Downloader is called at most 5
\* times for an item; nothing follows the first success, and an item that
\* succeeds at its 5th call ends as succeeded; when every call fails exactly
\* 5 calls are made and the item ends as failed.
C1_AtMostFiveCalls ==
    /\ Calls(evlog) <= max_retries
    /\ \A k \in 1..Len(evlog) : evlog[k] = "download_ok" => k = Len(evlog)
    /\ pc \in {"refresh", "download"} => NoSuccess(evlog) /\ result = "pending"
    /\ result = "succeeded" <=>
          (evlog # <<>> /\ evlog[Len(evlog)] = "download_ok")
    /\ result = "failed" <=>
          (Calls(evlog) = max_retries /\ NoSuccess(evlog) /\ pc # "download")

\* a bootcamp video whose first 4 calls failed and whose 5th succeeded
C1_FifthCallSucceeds ==
    /\ mode = "bootcamp"
    /\ result = "succeeded"
    /\ Calls(evlog) = max_retries

\* C2: every call of the Media Downloader, first attempt and retries alike,
\* comes right after a refresh_cookies of the same attempt, and an item has
\* as many refreshes as download attempts.
C2_RefreshBeforeEveryCall ==
    /\ \A k \in 1..Len(evlog) :
          evlog[k] # "refresh" => k > 1 /\ evlog[k - 1] = "refresh"
    /\ Refreshes(evlog) = Calls(evlog) + (IF pc = "download" THEN 1 ELSE 0)

\* a course video that was refreshed and called 5 times and failed
C2_FiveRefreshesFiveCalls ==
    /\ mode = "course"
    /\ result = "failed"
    /\ Refreshes(evlog) = max_retries
    /\ Calls(evlog) = max_retries

\* C3: in a course and in a bootcamp traversal an item that fails
\* classification (URLError), extraction (VideoError), its article snapshot
\* (save_article gives no article) or all 5 attempts is followed by the next
\* item: the traversal does not end with an uncaught exception.
C3_TraversalGoesOn ==
    (mode \in {"course", "bootcamp"} /\
     result \in {"URLError", "VideoError", "snapshot_none", "failed"})
        => pc # "crashed"

\* C4: when a course or a bootcamp traversal ends, the error list holds one
\* entry (parent title, item title, URL) for every item that failed
\* classification, failed extraction or exhausted its 5 attempts.
C4_ErrorListComplete ==
    (mode \in {"course", "bootcamp"} /\ pc \in {"report", "exit"}) =>
        /\ Len(lst_errors_url) = Len(failed)
        /\ \A k \in 1..Len(failed) :
              /\ lst_errors_url[k].url = RefAt(failed[k]).url
              /\ lst_errors_url[k].video_title = RefAt(failed[k]).title
              /\ lst_errors_url[k].section = tree[failed[k][1]].title

RECURSIVE Flatten(_)
Flatten(ss) == IF ss = <<>> THEN <<>> ELSE Head(ss) \o Flatten(Tail(ss))

\* the leaves of the tree in document order, each with its position
AllLeaves ==
    IF mode = "course"
    THEN Flatten([i \in 1..Len(tree) |->
           [j \in 1..Len(tree[i].videos_url) |->
              [pos |-> <<i, j, 1>>, url |-> tree[i].videos_url[j].url]]])
    ELSE Flatten([i \in 1..Len(tree) |->
           Flatten([j \in 1..Len(tree[i].classes) |->
              [k \in 1..Len(tree[i].classes[j].videos) |->
                 [pos |-> <<i, j, k>>,
                  url |-> tree[i].classes[j].videos[k].url]]])])

\* C20: items are taken up in document order (sections, then videos;
\* modules, then classes, then videos): the items taken up so far are the
\* first leaves of the tree, each once, and every download attempt is made
\* for the last of them.
C20_DocumentOrder ==
    mode \in {"course", "bootcamp"} =>
        /\ Len(visited) <= Len(AllLeaves)
        /\ visited = SubSeq(AllLeaves, 1, Len(visited))
        /\ pc \in {"refresh", "download"} =>
              visited # <<>> /\ visited[Len(visited)].pos = Pos
        /\ (pc \in {"report", "exit"} /\ visited # <<>>) =>
              visited = AllLeaves

\* a bootcamp whose last two videos are in different modules, both taken up
C20_SecondModuleReached ==
    /\ mode = "bootcamp"
    /\ Len(visited) >= 2
    /\ visited[Len(visited)].pos[1] = 2
    /\ visited[Len(visited) - 1].pos[1] = 1
    /\ pc = "download"

\* C27: the download traversal never modifies the Course or Bootcamp tree it
\* was given: every title, URL, sequence and list of every node keeps the
\* value it had when the builder returned the tree.
C27_TreeNeverModified == [][tree' = tree]_vars

\* C28: at most one browser session (Client) is open at any time, and every
\* item of a traversal, articles included, is handled through the one
\* session opened for that traversal.
C28_OneSession ==
    /\ Cardinality(clients) <= 1
    /\ snapshot # NoSnapshot => snapshot.client = "command"

\* the report entry of the item at a position
ItemAt(p) ==
    [section |-> tree[p[1]].title,
     video_title |-> RefAt(p).title,
     url |-> RefAt(p).url]

\* whether a is b with some of its elements left out
RECURSIVE IsSubSeq(_, _)
IsSubSeq(a, b) ==
    IF a = <<>> THEN TRUE
    ELSE IF b = <<>> THEN FALSE
    ELSE IF Head(a) = Head(b) THEN IsSubSeq(Tail(a), Tail(b))
    ELSE IsSubSeq(a, Tail(b))

\* whether position p comes before position q in document order
Before(p, q) ==
    \/ p[1] < q[1]
    \/ p[1] = q[1] /\ p[2] < q[2]
    \/ p[1] = q[1] /\ p[2] = q[2] /\ p[3] < q[3]

\* C30: the failure report holds an item only if that item failed, holds a
\* failed item at most once, and lists its entries in traversal order; when
\* every item of the tree succeeds, every leaf has been taken up and ended
\* well and the report is empty.
C30_ReportOnlyFailures ==
    mode \in {"course", "bootcamp"} =>
        /\ \A j, k \in DOMAIN failed : j < k => Before(failed[j], failed[k])
        /\ IsSubSeq(lst_errors_url,
                    [k \in DOMAIN failed |-> ItemAt(failed[k])])
        /\ (pc = "exit" /\ visited = AllLeaves /\ failed = <<>>) =>
               lst_errors_url = <<>>

\* a course with a section of one item and a section of two, one of the
\* three an article, gone through with every item succeeding
C30_ThreeItemsNoFailure ==
    /\ mode = "course"
    /\ pc = "exit"
    /\ crash = "none"
    /\ Len(tree) = 2
    /\ Len(tree[1].videos_url) = 1
    /\ Len(tree[2].videos_url) = 2
    /\ \E j \in 1..2 : is_article_url(tree[2].videos_url[j].url)
    /\ visited = AllLeaves
    /\ failed = <<>>
    /\ lst_errors_url = <<>>

\* the notices printed after failed attempts
FailureNotices ==
    SelectSeq(notices, LAMBDA n : n # "VIDEO_DL_DONE")

\* C31: in each of the three download loops a retry notice is printed after
\* each of the first four failed attempts of an item and the final "unable
\* to download" notice after the fifth, and no retry notice is followed by
\* the end of the item's attempts.
C31_RetryNotices ==
    /\ Len(FailureNotices) =
          Len(SelectSeq(evlog, LAMBDA e : e = "download_fail"))
    /\ \A k \in DOMAIN FailureNotices :
          FailureNotices[k] = IF k < max_retries
                              THEN "VIDEO_DL_ERROR_RETRY"
                              ELSE "VIDEO_DL_ERROR_MAX"
    /\ (pc \notin {"refresh", "download"} /\ notices # <<>>) =>
          notices[Len(notices)] # "VIDEO_DL_ERROR_RETRY"

\* C31 for the loops of the single-video and the course command
C31_RetryNoticesOutsideBootcamp ==
    mode # "bootcamp" => C31_RetryNotices

\* whether a download or a snapshot was attempted
Attempted ==
    \/ visited # <<>>
    \/ evlog # <<>>
    \/ snapshot # NoSnapshot

\* C33: in the course and bootcamp commands login comes before the build of
\* the tree, the whole build before the confirmation prompt, and no download
\* or snapshot is attempted before the user confirms; a declined prompt ends
\* the command with no download attempt.
C33_LoginBuildConfirm ==
    mode \in {"course", "bootcamp"} =>
        /\ steps \in { <<>>, <<"login">>, <<"login", "build">>,
                       <<"login", "build", "confirmed">>,
                       <<"login", "build", "declined">> }
        /\ Attempted => steps = <<"login", "build", "confirmed">>
        /\ pc = "confirm" => steps = <<"login", "build">>
        /\ (Len(steps) = 3 /\ steps[3] = "declined") =>
               pc = "exit" /\ ~Attempted

\* a command whose prompt was declined, ended
C33_Declined ==
    /\ mode \in {"course", "bootcamp"}
    /\ steps = <<"login", "build", "declined">>
    /\ pc = "exit"
    /\ tree # <<>>

\* C35: every Client session that is entered is eventually closed: on every
\* way out of the with block (its end, typer.Exit after a build error or a
\* declined prompt, an exception leaving the traversal) the context and the
\* browser are closed and playwright is stopped, once each and in that order.
C35_SessionsClosed ==
    /\ [](\A k \in DOMAIN sessions :
            /\ sessions[k].ops \in
                  { <<>>, <<"context.close", "browser.close", "playwright.stop">> }
            /\ sessions[k].ops = <<>> => sessions[k].client \in clients)
    /\ [](pc \in {"exit", "crashed"} =>
            \A k \in DOMAIN sessions : sessions[k].ops # <<>>)
    /\ <>[](/\ sessions # <<>>
            /\ clients = {}
            /\ \A k \in DOMAIN sessions : sessions[k].ops # <<>>)

\* an exception left the traversal while a second session was open, and
\* both sessions were closed
C35_TwoSessionsClosedOnException ==
    /\ pc = "crashed"
    /\ Len(sessions) = 2
    /\ sessions[2].client = "article"
    /\ \A k \in DOMAIN sessions :
          sessions[k].ops = <<"context.close", "browser.close", "playwright.stop">>

\* C5: a timeout while navigating to an item is handled like a
\* DownloadError (counted, retried, the item recorded as failed after the
\* 5th): it never propagates out of a traversal.
C5_TimeoutNeverPropagates ==
    mode \in {"course", "bootcamp"} => crash # "TimeoutError"

\* ------------------------------------------------------- the bootcamp builder

\* the names consts.py defines
ConstsDefined ==
    { "COOKIES_FILE", "BASE_URL", "LOGIN_URL", "POST_LOGIN_URL",
      "SAMPLE_VIDEO_URL", "SAMPLE_ARTICLE_URL", "SAMPLE_COURSE_URL",
      "ARTICLE_URL_REGEX", "VIDEO_URL_REGEX", "COURSE_URL_REGEX",
      "BOOTCAMP_URL_REGEX", "FFMPEG_URL", "CONFIG_FILE", "DOWNLOADS_DIR",
      "SYMBOLS_NAME", "NEWLINE_NAME", "CLASS_NAME", "BOOTCAMP_NAME",
      "MODULE_NUMBER", "VIDEO_NUMBER", "CLIENT_ERROR", "LOGIN_OK", "PROCESSING",
      "DOWNLOADING", "VIDEO_DL_DONE", "VIDEO_DL_ERROR_1", "VIDEO_DL_ERROR_2",
      "VIDEO_DL_ERROR_MAX", "FileType" }

\* the URLs get_bootcamp_detail_sync is called with
BuildUrls == { <<BASE_URL, "/programas/", "x">>, <<BASE_URL, "/cursos/", "x">> }

\* li[class*='f-radius-small']: the "not charged yet" span, the h4, the span
\* with the module's number
ModuleContainers ==
    { [marker |-> mk, h4 |-> h, span |-> sp] :
        mk \in BOOLEAN,
        h \in { Elem(<<"m">>) },
        sp \in { Elem(<<"M", "o_acute", "d", "u", "l", "o", " ", "1">>),
                 Elem(<<"M", "o", "d", "u", "l", "o">>),
                 NoElem } }

\* the hyperlinks of a container: the title element and the label element
ClassLinks ==
    { [p_title |-> t, label |-> lb.label, href |-> lb.href] :
        t \in { Elem(<<"t">>), Elem(<<"?">>), NoElem },
        lb \in { [label |-> Elem(<<"1", "-", " ", "C", "u", "r", "s", "o">>),
                  href |-> <<"/cursos/", "k">>],
                 [label |-> Elem(<<"2", "-", " ", "C", "l", "a", "s", "e">>),
                  href |-> <<"/clases/", "c">>],
                 [label |-> NoElem, href |-> <<"/clases/", "n">>] } }

\* the hyperlinks of a class page
VideoLinks ==
    { [href |-> <<"/videos/", "x">>,
       label |-> Elem(<<"C", "l", "a", "s", "e", " ", "1">>),
       title |-> Elem(<<"v">>)] }

\* what the isolated page shows at class_url
ClassPages ==
    { [goto |-> g, container |-> c, links |-> ls] :
        g \in {"ok", "timeout"}, c \in BOOLEAN, ls \in SeqUpTo(VideoLinks, MaxLinks) }

\* the for loop of _get_videos over the hyperlinks of the class page
RECURSIVE VideosLoop(_)
VideosLoop(links) ==
    IF links = <<>> THEN Ok(<<>>)
    ELSE LET a == Head(links)
             sq == clean_video_sequence(a.label)
             ti == clean_video_title(a.title)
         IN  IF sq.exc # "none" THEN Raise(sq.exc, <<>>)
             ELSE IF ti.exc # "none" THEN Raise(ti.exc, <<>>)
             ELSE IF "CLASS_BOOTCAMP_NAME" \notin ConstsDefined
             THEN Raise("AttributeError", <<>>)
             ELSE LET t2 == clean_title(ti.val)
                      rest == VideosLoop(Tail(links))
                  IN  IF t2.exc # "none" THEN Raise(t2.exc, <<>>)
                      ELSE IF rest.exc # "none" THEN rest
                      ELSE Ok(<<[url |-> <<BASE_URL>> \o a.href,
                                 sequence |-> sq.val,
                                 title |-> t2.val]>> \o rest.val)

\* the try block of _get_videos
get_videos_try(cp) ==
    IF cp.goto = "timeout" THEN Raise("TimeoutError", <<>>)
    ELSE IF ~cp.container THEN Ok(<<>>)
    ELSE IF cp.links = <<>> THEN Ok(<<>>)
    ELSE VideosLoop(cp.links)

\* the function that lets the exception of the try block through
get_videos_uncaught(cp) == get_videos_try(cp)

\* collectors._get_videos: except Exception: ... return []
get_videos(cp) ==
    IF get_videos_try(cp).exc # "none" THEN Ok(<<>>) ELSE get_videos_try(cp)

\* the type of a nested course
CourseType == <<"C", "u", "r", "s", "o">>

\* a test that takes every hyperlink for a class
IsCourseType_never(class_type) == FALSE

\* if class_type != "Curso": ... else: _print_error_class(...)
IsCourseType(class_type) == class_type = CourseType

\* a test that does not see the marker
NotCharged_never(li_tag) == FALSE

\* li_tag.query_selector("span[class='bold f-yellow-text']") is not None
NotCharged(li_tag) == li_tag.marker

\* a close that is skipped when the extraction failed
ClosesPage_on_success(extraction_failure) == ~extraction_failure

\* while not new_page.is_closed(): new_page.close()
ClosesPage(extraction_failure) == TRUE

\* _print_error_class and _generate_file_course: the path and what is written
MarkerFile(module, class) ==
    [dir |-> <<"downloads", "Bootcamp - B", module.sequence, module.title>>,
     name |-> <<class.sequence, class.title>>,
     type |-> "txt",
     title |-> class.title,
     url |-> class.url]

BuildInit ==
    /\ HelperIdle
    /\ ClientIdle
    /\ ArticleIdle
    /\ BuilderFields("b_start")
    /\ mode = "bootcamp"
    /\ tree = <<>>
    /\ pc = "build"
    /\ i1 = 1 /\ i2 = 1 /\ i3 = 1
    /\ attempt = 0
    /\ evlog = <<>>
    /\ notices = <<>>
    /\ steps = <<>>
    /\ result = "none"
    /\ lst_errors_url = <<>>
    /\ failed = <<>>
    /\ visited = <<>>
    /\ snapshot = NoSnapshot
    /\ clients = {}
    /\ sessions = <<>>
    /\ crash = "none"
    /\ ClassifierIdle
    /\ CourseBuilderIdle

BRaise(at) ==
    /\ bpc' = "raised"
    /\ berr' = "BootcampError"
    /\ raised_at' = at

\* what page.title() gives for the bootcamp page
BootcampPageTitles ==
    { <<"B", "o", "o", "t", "c", "a", "m", "p", " ", "d", "e", " ", "b">>,
      <<"B", "o", "o", "t", "c", "a", "m", "p">>,
      <<"b">> }

\* the statements of get_bootcamp_detail_sync that come before the try
\* block: the URL test, page.goto, the title
BeforeModules(url, goto, page_title) ==
    IF ~is_bootcamp_url(url) THEN "URLError"
    ELSE IF goto = "timeout" THEN "TimeoutError"
    ELSE clean_bootcamp_title(page_title).exc

\* get_bootcamp_detail_sync up to the call of _get_modules
BuildStart ==
    /\ bpc = "b_start"
    /\ \E url \in BuildUrls, goto \in {"ok", "timeout"},
          page_title \in BootcampPageTitles :
         IF BeforeModules(url, goto, page_title) # "none"
         THEN /\ bpc' = "raised"
              /\ berr' = BeforeModules(url, goto, page_title)
              /\ raised_at' = "b_start"
         ELSE /\ bpc' = "modules"
              /\ UNCHANGED <<berr, raised_at>>
    /\ UNCHANGED <<class_page, containers, li, cur_module, a_tag, acount, cur_class,
                   all_modules, all_classes, all_videos, extraction_failed,
                   open_pages, opened, seen, marker_files>>

\* for li_tag in li_tags: the next container, or return all_modules
ModuleRead ==
    /\ bpc = "modules"
    /\ \E more \in BOOLEAN :
         IF more /\ Len(containers) < MaxModules
         THEN \E c \in ModuleContainers :
                 /\ li' = c
                 /\ containers' = Append(containers, c)
                 /\ bpc' = "module_head"
         ELSE /\ bpc' = "returned"
              /\ UNCHANGED <<li, containers>>
    /\ UNCHANGED <<class_page, cur_module, a_tag, acount, cur_class, all_modules,
                   all_classes, all_videos, extraction_failed, open_pages,
                   opened, seen, marker_files, berr, raised_at>>

\* module_title = clean_module_title(li_tag)
\* module_sequence = clean_module_sequence(li_tag)
ModuleHead ==
    /\ bpc = "module_head"
    /\ LET t == clean_module_title(li.h4)
           n == clean_module_sequence(li.span)
       IN  IF t.exc # "none" \/ n.exc # "none"
           THEN BRaise("module_head") /\ UNCHANGED cur_module
           ELSE /\ cur_module' = [title |-> t.val, sequence |-> n.val]
                /\ bpc' = "marker_check"
                /\ UNCHANGED <<berr, raised_at>>
    /\ UNCHANGED <<class_page, containers, li, a_tag, acount, cur_class, all_modules,
                   all_classes, all_videos, extraction_failed, open_pages,
                   opened, seen, marker_files>>

\* the "not charged yet" test: the module with no classes and continue, or
\* the container's hyperlinks ("if module_title is None" never holds:
\* clean_module_title returns a string)
ModuleMarker ==
    /\ bpc = "marker_check"
    /\ IF NotCharged(li)
       THEN /\ all_modules' = Append(all_modules,
                                [sequence |-> cur_module.sequence,
                                 title |-> cur_module.title,
                                 classes |-> <<>>])
            /\ bpc' = "modules"
            /\ UNCHANGED <<all_classes, acount>>
       ELSE /\ all_classes' = <<>>
            /\ acount' = 0
            /\ bpc' = "classes"
            /\ UNCHANGED all_modules
    /\ UNCHANGED <<class_page, containers, li, cur_module, a_tag, cur_class, all_videos,
                   extraction_failed, open_pages, opened, seen, marker_files,
                   berr, raised_at>>

\* for a_tag in a_tags: the next hyperlink, or return all_classes to
\* _get_modules, which appends the BootcampModule
ClassRead ==
    /\ bpc = "classes"
    /\ \E more \in BOOLEAN :
         IF more /\ acount < MaxLinks /\ Len(seen) < MaxClassLinks
         THEN \E a \in ClassLinks :
                 /\ a_tag' = a
                 /\ acount' = acount + 1
                 /\ bpc' = "class_head"
                 /\ UNCHANGED all_modules
         ELSE /\ all_modules' = Append(all_modules,
                                  [sequence |-> cur_module.sequence,
                                   title |-> cur_module.title,
                                   classes |-> all_classes])
              /\ bpc' = "modules"
              /\ UNCHANGED <<a_tag, acount>>
    /\ UNCHANGED <<class_page, containers, li, cur_module, cur_class, all_classes,
                   all_videos, extraction_failed, open_pages, opened, seen,
                   marker_files, berr, raised_at>>

SeenEntry(extraction) ==
    [module |-> Len(containers), a_tag |-> a_tag, extraction |-> extraction]

\* the body of the loop of _get_classes up to the call of _get_videos: the
\* type, the sequence, the title, then a new page for a class, the marker
\* file for a course, a log line for a hyperlink without title
ClassHead ==
    /\ bpc = "class_head"
    /\ LET ty == clean_class_type(a_tag.label)
           sq == clean_class_sequence(a_tag.label)
           ti == clean_title(a_tag.p_title.text)
           class_url == <<BASE_URL>> \o a_tag.href
       IN  IF ty.exc # "none" \/ sq.exc # "none"
           THEN /\ BRaise("class_head")
                /\ UNCHANGED <<cur_class, open_pages, opened, seen, marker_files>>
           ELSE IF ~a_tag.p_title.present
           THEN /\ seen' = Append(seen, SeenEntry("none"))
                /\ bpc' = "classes"
                /\ UNCHANGED <<cur_class, open_pages, opened, marker_files,
                               berr, raised_at>>
           ELSE IF ti.exc # "none"
           THEN /\ BRaise("class_head")
                /\ UNCHANGED <<cur_class, open_pages, opened, seen, marker_files>>
           ELSE IF ~IsCourseType(ty.val)
           THEN /\ cur_class' = [title |-> ti.val, sequence |-> sq.val,
                                 url |-> class_url]
                /\ open_pages' = open_pages + 1
                /\ opened' = Append(opened, SeenEntry("none"))
                /\ bpc' = "videos"
                /\ UNCHANGED <<seen, marker_files, berr, raised_at>>
           ELSE /\ marker_files' =
                     Append(marker_files,
                            MarkerFile(cur_module,
                                       [title |-> ti.val, sequence |-> sq.val,
                                        url |-> class_url]))
                /\ seen' = Append(seen, SeenEntry("none"))
                /\ bpc' = "classes"
                /\ UNCHANGED <<cur_class, open_pages, opened, berr, raised_at>>
    /\ UNCHANGED <<class_page, containers, li, cur_module, a_tag, acount, all_modules,
                   all_classes, all_videos, extraction_failed>>

\* all_videos = _get_videos(class_url, new_page, dict_info)
GetVideos ==
    /\ bpc = "videos"
    /\ \E cp \in ClassPages :
         LET r == get_videos(cp)
         IN  IF r.exc # "none"
             THEN /\ BRaise("videos")
                  /\ UNCHANGED <<all_videos, extraction_failed, class_page>>
             ELSE /\ all_videos' = r.val
                  /\ extraction_failed' = (get_videos_try(cp).exc # "none")
                  /\ class_page' = cp
                  /\ bpc' = "close"
                  /\ UNCHANGED <<berr, raised_at>>
    /\ UNCHANGED <<containers, li, cur_module, a_tag, acount, cur_class,
                   all_modules, all_classes, open_pages, opened, seen,
                   marker_files>>

\* while not new_page.is_closed(): new_page.close()
ClosePage ==
    /\ bpc = "close"
    /\ open_pages' = IF ClosesPage(extraction_failed) THEN open_pages - 1
                     ELSE open_pages
    /\ bpc' = "append"
    /\ UNCHANGED <<class_page, containers, li, cur_module, a_tag, acount, cur_class,
                   all_modules, all_classes, all_videos, extraction_failed,
                   opened, seen, marker_files, berr, raised_at>>

\* all_classes.append(BootcampClass(..., url=f"{consts.BASE_URL}{class_url}", ...))
AppendClass ==
    /\ bpc = "append"
    /\ all_classes' = Append(all_classes,
                             [sequence |-> cur_class.sequence,
                              title |-> cur_class.title,
                              url |-> <<BASE_URL>> \o cur_class.url,
                              videos |-> all_videos])
    /\ seen' = Append(seen, SeenEntry(IF extraction_failed THEN "failed" ELSE "ok"))
    /\ class_page' = NoClassPage
    /\ bpc' = "classes"
    /\ UNCHANGED <<containers, li, cur_module, a_tag, acount, cur_class,
                   all_modules, all_videos, extraction_failed, open_pages,
                   opened, marker_files, berr, raised_at>>

BuildNext ==
    \/ BuildStart /\ UNCHANGED <<ovars, uvars, cvars, avars, hvars, kvars>>
    \/ ModuleRead /\ UNCHANGED <<ovars, uvars, cvars, avars, hvars, kvars>>
    \/ ModuleHead /\ UNCHANGED <<ovars, uvars, cvars, avars, hvars, kvars>>
    \/ ModuleMarker /\ UNCHANGED <<ovars, uvars, cvars, avars, hvars, kvars>>
    \/ ClassRead /\ UNCHANGED <<ovars, uvars, cvars, avars, hvars, kvars>>
    \/ ClassHead /\ UNCHANGED <<ovars, uvars, cvars, avars, hvars, kvars>>
    \/ GetVideos /\ UNCHANGED <<ovars, uvars, cvars, avars, hvars, kvars>>
    \/ ClosePage /\ UNCHANGED <<ovars, uvars, cvars, avars, hvars, kvars>>
    \/ AppendClass /\ UNCHANGED <<ovars, uvars, cvars, avars, hvars, kvars>>

BuildSpec == BuildInit /\ [][BuildNext]_vars

\* ------------------------------------------------------- the built bootcamp

\* C18: a class whose page lists N video hyperlinks with well-formed labels
\* gets exactly N videos, in document order, each with the ordinal and the
\* normalized title of its link and URL = BASE_URL + href.
C18_EveryVideoLinkListed ==
    (bpc \in {"close", "append"} /\ class_page.goto = "ok"
       /\ class_page.container) =>
        /\ Len(all_videos) = Len(class_page.links)
        /\ \A k \in 1..Len(all_videos) :
              /\ all_videos[k].url = <<BASE_URL>> \o class_page.links[k].href
              /\ all_videos[k].sequence =
                    clean_video_sequence(class_page.links[k].label).val
              /\ all_videos[k].title =
                    clean_video_title(class_page.links[k].title).val

\* C17: get_bootcamp_detail_sync returns a Bootcamp, raises URLError, or
\* raises BootcampError; no other exception escapes it, a failure while
\* cleaning the page title or parsing a module's ordinal included.
C17_BootcampOutcomes ==
    /\ berr \in {"none", "URLError", "BootcampError"}
    /\ bpc = "raised" <=> berr # "none"

\* the parsed type of a hyperlink's label
LinkType(a) == clean_class_type(a.label).val

HasSuffix(s, t) ==
    Len(s) >= Len(t) /\ SubSeq(s, Len(s) - Len(t) + 1, Len(s)) = t

\* the loop of _get_classes is running for the last container read
InClassLoop == bpc \in {"classes", "class_head", "videos", "close", "append"}

\* the class list of the m-th container: the finished module's, or the one
\* _get_classes is filling
BuiltClasses(m) ==
    IF m <= Len(all_modules) THEN all_modules[m].classes ELSE all_classes

\* the hyperlinks of the m-th container whose iteration is over and which
\* have a title and a type other than "Curso"
ClassLinksOf(m) ==
    SelectSeq(seen, LAMBDA e : /\ e.module = m
                               /\ e.a_tag.p_title.present
                               /\ LinkType(e.a_tag) # CourseType)

CourseLinks == SelectSeq(seen, LAMBDA e : LinkType(e.a_tag) = CourseType)

C7_OneMarkerPerCourseLink ==
    /\ Len(marker_files) = Len(CourseLinks)
    /\ \A k \in 1..Len(marker_files) :
          /\ marker_files[k].type = "txt"
          /\ marker_files[k].dir[1] = "downloads"
          /\ HasSuffix(marker_files[k].url, CourseLinks[k].a_tag.href)

C9_ExtractionFailureIsAbsorbed ==
    /\ raised_at # "videos"
    /\ (bpc \in {"close", "append"} /\ extraction_failed) => all_videos = <<>>
    /\ \A m \in 1..Len(containers) :
          (m <= Len(all_modules) \/ InClassLoop) =>
            LET b == BuiltClasses(m)
                e == ClassLinksOf(m)
            IN  \A k \in 1..Len(e) :
                  e[k].extraction = "failed" =>
                      k <= Len(b) /\ b[k].videos = <<>>

\* a returned bootcamp one of whose classes had a failed extraction
C9_ReturnedWithFailedExtraction ==
    /\ bpc = "returned"
    /\ berr = "none"
    /\ \E k \in 1..Len(seen) : seen[k].extraction = "failed"
    /\ \E m \in 1..Len(all_modules) : all_modules[m].classes # <<>>

\* C10: the isolated page of a class is closed before the class is appended
\* and before the next class, whether the extraction succeeded or failed: at
\* most one is open at any time, none when the build returns or raises.
C10_PageClosedBeforeAppend ==
    /\ open_pages <= 1
    /\ bpc \notin {"videos", "close"} => open_pages = 0

\* a class whose extraction failed, about to be appended, its page closed
C10_ClosedAfterFailedExtraction ==
    /\ bpc = "append"
    /\ extraction_failed
    /\ opened # <<>>
    /\ open_pages = 0

\* C36: the url stored in every BootcampClass is the URL that was navigated
\* to for the videos of the class: BASE_URL followed by the href of the
\* hyperlink, with BASE_URL in it exactly once.
C36_ClassUrlIsNavigatedUrl ==
    /\ bpc \in {"videos", "close", "append"} =>
          cur_class.url = <<BASE_URL>> \o a_tag.href
    /\ \A m \in 1..Len(containers) :
          \A k \in DOMAIN BuiltClasses(m) \cap DOMAIN ClassLinksOf(m) :
             LET url == BuiltClasses(m)[k].url
             IN  /\ url = <<BASE_URL>> \o ClassLinksOf(m)[k].a_tag.href
                 /\ Len(SelectSeq(url, LAMBDA t : t = BASE_URL)) = 1

\* --------------------------------------------------------- the course builder

\* the hyperlinks of a section container: with the video-title element, for a
\* video or an article, or without it
SectionLinks ==
    { [p_title |-> Elem(<<"v">>), href |-> <<"/videos/", "x">>],
      [p_title |-> Elem(<<"a">>), href |-> <<"/articulos/", "y">>],
      [p_title |-> NoElem, href |-> <<"/videos/", "z">>] }

\* the sequences of div.f-top-16 containers, with or without h4, of at most
\* n nodes (containers and hyperlinks)
RECURSIVE ContainerForest(_)
ContainerForest(n) ==
    { <<>> } \cup
    UNION { LET R == ContainerForest(n - 1 - j)
            IN  { <<[h4 |-> h, links |-> ls]>> \o rest :
                    h \in { Elem(<<"s">>), NoElem },
                    ls \in [1..j -> SectionLinks],
                    rest \in R } :
            j \in 0..(n - 1) }

CourseDoms == ContainerForest(MaxDomNodes)

\* the URLs get_course_detail_sync is called with
CourseUrls ==
    { <<BASE_URL, "/cursos/", "x">>, <<BASE_URL, "/videos/", "x">>, <<"x">> }

\* a test that takes every hyperlink
HasVideoTitle_always(a) == TRUE

\* if p_element_title is not None:
HasVideoTitle(a) == a.p_title.present

\* the inner loop of _get_sections over the hyperlinks of a container
RECURSIVE SectionVideos(_)
SectionVideos(links) ==
    IF links = <<>> THEN <<>>
    ELSE LET a == Head(links)
         IN  IF HasVideoTitle(a)
             THEN <<[title |-> a.p_title.text,
                     url |-> <<BASE_URL>> \o a.href]>>
                    \o SectionVideos(Tail(links))
             ELSE SectionVideos(Tail(links))

\* collectors._get_sections: the loop over the containers; one without h4 is
\* skipped
RECURSIVE get_sections(_)
get_sections(divs) ==
    IF divs = <<>> THEN <<>>
    ELSE LET div == Head(divs)
         IN  IF ~div.h4.present THEN get_sections(Tail(divs))
             ELSE <<[title |-> div.h4.text,
                     videos_url |-> SectionVideos(div.links)]>>
                    \o get_sections(Tail(divs))

\* helpers.clean_play_url: reads consts.PLAY_COURSE, which consts.py does not
\* define; the pattern it would remove is not in the repository
clean_play_url(url) ==
    IF "PLAY_COURSE" \notin ConstsDefined
    THEN Raise("AttributeError", <<>>)
    ELSE Ok(url)

\* collectors.get_course_detail_sync
get_course_detail_sync(url, goto, dom) ==
    LET u == clean_play_url(url)
    IN  IF u.exc # "none" THEN Raise(u.exc, <<>>)
        ELSE IF ~is_course_url(u.val) THEN Raise("URLError", <<>>)
        ELSE IF goto = "timeout" THEN Raise("TimeoutError", <<>>)
        ELSE Ok([url |-> u.val, title |-> <<"c">>,
                 sections |-> get_sections(dom)])

CourseInit ==
    /\ HelperIdle
    /\ ClientIdle
    /\ ArticleIdle
    /\ \E dom \in CourseDoms : CourseBuilderFields("input", dom)
    /\ BuilderIdle
    /\ ClassifierIdle
    /\ mode = "course"
    /\ tree = <<>>
    /\ pc = "build"
    /\ i1 = 1 /\ i2 = 1 /\ i3 = 1
    /\ attempt = 0
    /\ evlog = <<>>
    /\ notices = <<>>
    /\ steps = <<>>
    /\ result = "none"
    /\ lst_errors_url = <<>>
    /\ failed = <<>>
    /\ visited = <<>>
    /\ snapshot = NoSnapshot
    /\ clients = {}
    /\ sessions = <<>>
    /\ crash = "none"

\* sections = _get_sections(page)
GetSections ==
    /\ c_pc = "input"
    /\ c_sections' = get_sections(c_dom)
    /\ c_pc' = "sections"
    /\ UNCHANGED <<c_dom, c_url, c_goto, c_out>>

\* client.course(url)
CourseDetail ==
    /\ c_pc = "input"
    /\ \E url \in CourseUrls, goto \in {"ok", "timeout"} :
         /\ c_url' = url
         /\ c_goto' = goto
         /\ c_out' = get_course_detail_sync(url, goto, c_dom)
    /\ c_pc' = "done"
    /\ UNCHANGED <<c_dom, c_sections>>

CourseNext ==
    \/ GetSections /\ UNCHANGED <<ovars, bvars, uvars, avars, hvars, kvars>>
    \/ CourseDetail /\ UNCHANGED <<ovars, bvars, uvars, avars, hvars, kvars>>

CourseSpec == CourseInit /\ [][CourseNext]_vars

\* the containers of the page that have a header
WithHeader == SelectSeq(c_dom, LAMBDA d : d.h4.present)

\* the hyperlinks of a container that hold the video-title element
Titled(d) == SelectSeq(d.links, LAMBDA a : a.p_title.present)

\* C15: the section list is exactly the containers that have a header, in
\* document order, the others skipped without error; a section's video list
\* is exactly its hyperlinks holding the video-title element, in document
\* order, each with URL = BASE_URL + href.
C15_SectionsFollowTheDocument ==
    c_pc = "sections" =>
        /\ Len(c_sections) = Len(WithHeader)
        /\ \A k \in 1..Len(c_sections) :
             LET links == Titled(WithHeader[k])
                 videos == c_sections[k].videos_url
             IN  /\ c_sections[k].title = WithHeader[k].h4.text
                 /\ Len(videos) = Len(links)
                 /\ \A j \in 1..Len(videos) :
                      /\ videos[j].title = links[j].p_title.text
                      /\ videos[j].url = <<BASE_URL>> \o links[j].href

\* a page with a headerless container before a section with a titled link
\* after an untitled one
C15_SkippedContainerAndLink ==
    /\ c_pc = "sections"
    /\ Len(c_dom) = 2
    /\ ~c_dom[1].h4.present
    /\ Len(c_dom[2].links) = 2
    /\ ~c_dom[2].links[1].p_title.present
    /\ Len(c_sections) = 1
    /\ Len(c_sections[1].videos_url) = 1

\* C16: get_course_detail_sync returns a Course, raises URLError when the
\* URL is not a course URL, or raises CourseError, and nothing else; for a
\* valid course URL whose page is well formed it returns a Course.
C16_CourseOutcomes ==
    c_pc = "done" =>
        /\ c_out.exc \in {"none", "URLError", "CourseError"}
        /\ c_out.exc = "URLError" <=> ~is_course_url(c_url)
        /\ (is_course_url(c_url) /\ c_goto = "ok") => c_out.exc = "none"

\* ------------------------------------------------- classifier and extractor

\* what a URL string is made of: the base domain, the four path markers, a
\* plain character and a newline
UrlTokens ==
    { BASE_URL, "/articulos/", "/videos/", "/cursos/", "/programas/", "x", "\n" }

Urls == SeqUpTo(UrlTokens, MaxUrlLen)

KindNames == {"Article", "Video", "Course", "Bootcamp"}

\* the is_*_url tests that answer True for a URL
Kinds(url) ==
    { k \in KindNames :
        \/ k = "Article" /\ is_article_url(url)
        \/ k = "Video" /\ is_video_url(url)
        \/ k = "Course" /\ is_course_url(url)
        \/ k = "Bootcamp" /\ is_bootcamp_url(url) }

\* the dispatch of download(): the first test that holds, in the order
\* article, video, course, bootcamp; none: the command does nothing
Classify(url) ==
    IF is_article_url(url) THEN "Article"
    ELSE IF is_video_url(url) THEN "Video"
    ELSE IF is_course_url(url) THEN "Course"
    ELSE IF is_bootcamp_url(url) THEN "Bootcamp"
    ELSE "Invalid"

\* the path marker of a kind's pattern
MarkerOf(kind) ==
    CASE kind = "Article" -> "/articulos/"
      [] kind = "Video" -> "/videos/"
      [] kind = "Course" -> "/cursos/"
      [] OTHER -> "/programas/"

UrlInit ==
    /\ HelperIdle
    /\ ClientIdle
    /\ ArticleIdle
    /\ \E url \in Urls : ClassifierFields("input", url)
    /\ BuilderIdle
    /\ CourseBuilderIdle
    /\ mode = "video"
    /\ tree = <<>>
    /\ pc = "idle"
    /\ i1 = 1 /\ i2 = 1 /\ i3 = 1
    /\ attempt = 0
    /\ evlog = <<>>
    /\ notices = <<>>
    /\ steps = <<>>
    /\ result = "none"
    /\ lst_errors_url = <<>>
    /\ failed = <<>>
    /\ visited = <<>>
    /\ snapshot = NoSnapshot
    /\ clients = {}
    /\ sessions = <<>>
    /\ crash = "none"

\* the four tests on the URL
ClassifyUrl ==
    /\ u_pc = "input"
    /\ u_kinds' = Kinds(u_url)
    /\ u_pc' = "classified"
    /\ UNCHANGED <<u_url, u_again, u_page, u_video>>

\* the four tests on the same URL, once more
ClassifyAgain ==
    /\ u_pc = "classified"
    /\ u_again' = Kinds(u_url)
    /\ u_pc' = "twice"
    /\ UNCHANGED <<u_url, u_kinds, u_page, u_video>>

\* client.video(url): the page is navigated only past the URL test
VideoDetail ==
    /\ u_pc = "twice"
    /\ \E page \in PageStates :
         LET r == get_video_detail_sync(u_url, page)
         IN  /\ u_video' = r
             /\ u_page' = IF r.exc = "URLError" THEN NoPage ELSE page
    /\ u_pc' = "fetched"
    /\ UNCHANGED <<u_url, u_kinds, u_again>>

UrlNext ==
    \/ ClassifyUrl /\ UNCHANGED <<ovars, bvars, cvars, avars, hvars, kvars>>
    \/ ClassifyAgain /\ UNCHANGED <<ovars, bvars, cvars, avars, hvars, kvars>>
    \/ VideoDetail /\ UNCHANGED <<ovars, bvars, cvars, avars, hvars, kvars>>

UrlSpec == UrlInit /\ [][UrlNext]_vars

\* the whole string matches the kind's pattern: nothing is left after ".+"
FullMatch(url, kind) ==
    /\ Len(url) >= 3
    /\ url[1] = BASE_URL
    /\ url[2] = MarkerOf(kind)
    /\ \A k \in 3..Len(url) : url[k] # "\n"

\* C11: for every URL string at most one of is_article_url, is_video_url,
\* is_course_url, is_bootcamp_url is true, the classification is one of the
\* four kinds or Invalid, and asking again gives the same answer.
C11_SingleKind ==
    u_pc \in {"classified", "twice", "fetched"} =>
        /\ Cardinality(u_kinds) <= 1
        /\ Classify(u_url) \in KindNames \cup {"Invalid"}
        /\ u_kinds = IF Classify(u_url) = "Invalid" THEN {}
                     ELSE {Classify(u_url)}
        /\ u_pc \in {"twice", "fetched"} => u_again = u_kinds

\* a string holding two path markers, classified by the first one only
C11_TwoMarkersOneKind ==
    /\ u_pc = "twice"
    /\ u_kinds = {"Video"}
    /\ Contains(u_url, "/cursos/")

\* C12: a URL is of a kind only when the whole string, first to last
\* character, matches the kind's pattern; a string that begins with a matching
\* URL and goes on with text the pattern does not cover is Invalid.
C12_WholeStringMatch ==
    u_pc \in {"classified", "twice", "fetched"} =>
        \A kind \in u_kinds : FullMatch(u_url, kind)

\* C13: get_video_detail_sync raises URLError exactly when the URL is
\* neither a video nor an article URL; a video URL yields an item of kind
\* Streaming, an article URL an item of kind Reading.
C13_UrlErrorIffNeitherVideoNorArticle ==
    u_pc = "fetched" =>
        /\ u_video.exc = "URLError" <=> u_kinds \cap {"Video", "Article"} = {}
        /\ (u_video.exc = "none" /\ "Video" \in u_kinds) =>
              u_video.val.media_type = "STREAMING"
        /\ (u_video.exc = "none" /\ "Article" \in u_kinds) =>
              u_video.val.media_type = "READING"

\* C14: for a valid video URL an item is returned only when the page has the
\* title element and both ids, with the stream locator
\* https://video-storage.codigofacilito.com/hls/{course_id}/{video_id}/playlist.m3u8;
\* when the title or either id is absent VideoError is raised and no item.
C14_ItemNeedsTitleAndIds ==
    (u_pc = "fetched" /\ "Video" \in u_kinds) =>
        /\ u_video.exc = "none" =>
              /\ u_page.title.present
              /\ u_page.video_id.present
              /\ u_page.course_id.present
              /\ u_video.val.m3u8_url =
                   <<"https://video-storage.codigofacilito.com", "/hls/">>
                     \o u_page.course_id.text \o <<"/">>
                     \o u_page.video_id.text \o <<"/playlist.m3u8">>
        /\ (u_page.goto = "ok" /\
            (~u_page.title.present \/ ~u_page.video_id.present
               \/ ~u_page.course_id.present)) =>
              u_video.exc = "VideoError"

\* a video URL whose page has the title and both ids: an item
C14_ItemReturned ==
    /\ u_pc = "fetched"
    /\ u_video.exc = "none"
    /\ u_video.val.id = <<"7">>
    /\ u_video.val.title = <<"T">>

\* -------------------------------------------------------- Client.save_article

\* the download command is not running
OrchestratorIdle ==
    /\ mode = "video"
    /\ tree = <<>>
    /\ pc = "idle"
    /\ i1 = 1 /\ i2 = 1 /\ i3 = 1
    /\ attempt = 0
    /\ evlog = <<>>
    /\ notices = <<>>
    /\ steps = <<>>
    /\ result = "none"
    /\ lst_errors_url = <<>>
    /\ failed = <<>>
    /\ visited = <<>>
    /\ snapshot = NoSnapshot
    /\ clients = {}
    /\ sessions = <<>>
    /\ crash = "none"

ArticleUrls ==
    { <<BASE_URL, "/articulos/", "x">>, <<BASE_URL, "/articulos/", "y">> }

\* what page.title() gives for an article page
ArticlePageTitles == { <<"a">>, <<"a", ".">>, <<"b", "\n">> }

\* the path argument: consts.DOWNLOADS_DIR alone, or with a path_dir
ArticlePaths ==
    { <<"downloads">>, <<"downloads", "/", "0", "1", ".", " ", "S">> }

\* what page.pdf leaves at the path it was given
PdfOutcomes ==
    { [produced |-> FALSE, size |-> 0] } \cup
    { [produced |-> TRUE, size |-> n] : n \in 1..2 }

\* title = clean_string(clean_new_line(page.title())), with the ordinal in
\* front of it when sequence != 0
ArticleTitle(page_title, sequence) ==
    LET title == clean_string(clean_new_line(page_title))
    IN  IF sequence # 0
        THEN Format02d(sequence) \o <<".", " ">> \o title
        ELSE title

\* f"{path}/{title}.{file_type.value}"
ArticleFile(path, title, file_type) ==
    path \o <<"/">> \o title \o <<".", file_type>>

NoArticle == [none |-> TRUE]

\* Article(url=..., title=..., file_type=..., size=..., exists=...); sequence
\* keeps the default of the model class
Article(url, title, file_type, size, exists) ==
    [none |-> FALSE, url |-> url, title |-> title, sequence |-> 0,
     file_type |-> file_type, size |-> size, exists |-> exists]

\* a save_article that asks for the snapshot whatever is on disk
NeedsSnapshot_always(files, name) == TRUE

\* not os.path.exists(f"{path}/{title}.{file_type.value}")
NeedsSnapshot(files, name) == name \notin DOMAIN files

\* page.pdf(path=name): the file it leaves, when it leaves one
WritePdf(files, name, pdf) ==
    IF ~pdf.produced THEN files
    ELSE [n \in DOMAIN files \cup {name} |->
            IF n = name
            THEN [size |-> pdf.size,
                  writes |-> IF name \in DOMAIN files
                             THEN files[name].writes + 1 ELSE 1]
            ELSE files[n]]

\* Client.save_article(url, path, file_type, sequence) on the files of the
\* disk; goto is how page.goto of get_article_sync ends, page_title what
\* page.title() gives, pdf what page.pdf leaves
save_article(files, url, path, file_type, sequence, goto, page_title, pdf) ==
    IF goto = "timeout"
    THEN [files |-> files, requested |-> FALSE,
          ret |-> Raise("TimeoutError", NoArticle)]
    ELSE LET title == ArticleTitle(page_title, sequence)
             name == ArticleFile(path, title, file_type)
         IN  IF ~NeedsSnapshot(files, name)
             THEN [files |-> files, requested |-> FALSE,
                   ret |-> Ok(Article(url, title, file_type,
                                      files[name].size, TRUE))]
             ELSE LET written == WritePdf(files, name, pdf)
                  IN  [files |-> written, requested |-> TRUE,
                       ret |-> IF name \in DOMAIN written
                               THEN Ok(Article(url, title, file_type,
                                               written[name].size, FALSE))
                               ELSE Ok(NoArticle)]

ArticleInit ==
    /\ ArticleFields("ready")
    /\ a_site \in [ArticleUrls -> ArticlePageTitles]
    /\ OrchestratorIdle
    /\ BuilderIdle
    /\ ClassifierIdle
    /\ CourseBuilderIdle
    /\ HelperIdle
    /\ ClientIdle

\* client.save_article(url=url, path=path, file_type=consts.FileType.PDF,
\*                     sequence=sequence)
SaveArticle ==
    /\ a_pc = "ready"
    /\ Len(a_log) < MaxSaves
    /\ \E url \in ArticleUrls, path \in ArticlePaths,
          sequence \in 0..MaxSequence, goto \in {"ok", "timeout"},
          pdf \in PdfOutcomes :
         LET r == save_article(a_files, url, path, "pdf", sequence, goto,
                               a_site[url], pdf)
         IN  /\ a_files' = r.files
             /\ a_log' = Append(a_log,
                   [url |-> url, path |-> path, sequence |-> sequence,
                    file_type |-> "pdf", goto |-> goto,
                    name |-> ArticleFile(path,
                               ArticleTitle(a_site[url], sequence), "pdf"),
                    before |-> a_files, after |-> r.files,
                    requested |-> r.requested, ret |-> r.ret])
    /\ UNCHANGED <<a_pc, a_site>>

ArticleNext ==
    \/ SaveArticle /\ UNCHANGED <<ovars, bvars, uvars, cvars, hvars, kvars>>

ArticleSpec == ArticleInit /\ [][ArticleNext]_vars

\* ------------------------------------------------------- the saved article

SameCall(c, d) ==
    /\ c.url = d.url
    /\ c.path = d.path
    /\ c.sequence = d.sequence
    /\ c.file_type = d.file_type

\* C21: save_article asks for a snapshot only when no file of the derived
\* name is at the destination.  When the file is there it returns an article
\* with exists = true and the file's size and leaves the file as it was;
\* otherwise it writes the snapshot and returns an article with exists =
\* false and the new file's size, or no article when no file was produced.
\* A second call with the same URL, destination and ordinal returns exists =
\* true and does not write the file again.
C21_SnapshotOnlyWhenAbsent ==
    /\ \A k \in DOMAIN a_log :
         LET c == a_log[k]
         IN  c.goto = "ok" =>
               /\ c.requested <=> c.name \notin DOMAIN c.before
               /\ c.name \in DOMAIN c.before =>
                    /\ c.ret.exc = "none" /\ ~c.ret.val.none
                    /\ c.ret.val.exists
                    /\ c.ret.val.size = c.before[c.name].size
                    /\ c.after = c.before
               /\ c.name \notin DOMAIN c.before =>
                    /\ c.ret.exc = "none"
                    /\ IF c.name \in DOMAIN c.after
                       THEN /\ ~c.ret.val.none
                            /\ ~c.ret.val.exists
                            /\ c.ret.val.size = c.after[c.name].size
                       ELSE c.ret.val.none
                    /\ \A n \in DOMAIN c.before :
                         n \in DOMAIN c.after /\ c.after[n] = c.before[n]
    /\ \A j, k \in DOMAIN a_log :
         (/\ j < k
          /\ SameCall(a_log[j], a_log[k])
          /\ a_log[j].ret.exc = "none" /\ ~a_log[j].ret.val.none
          /\ a_log[k].goto = "ok") =>
            /\ ~a_log[k].ret.val.none
            /\ a_log[k].ret.val.exists
            /\ ~a_log[k].requested
            /\ a_log[k].after[a_log[k].name] = a_log[j].after[a_log[j].name]

\* the same call made twice, the first one having written the snapshot
C21_SecondCallFindsTheFile ==
    /\ Len(a_log) >= 2
    /\ SameCall(a_log[1], a_log[2])
    /\ a_log[1].requested
    /\ a_log[1].ret.exc = "none" /\ ~a_log[1].ret.val.none
    /\ a_log[2].goto = "ok"
    /\ a_log[2].ret.val.exists
    /\ a_log[2].sequence # 0

\* no newline, none of the symbols of consts.SYMBOLS_NAME, first letter
\* in upper case
Normalized(t) ==
    /\ \A k \in DOMAIN t : t[k] # "\n" /\ t[k] \notin Symbols
    /\ t # <<>> => ToUpper(t[1]) = t[1]

\* C24: every title stored in an object the builders and extractors return
\* (Course, CourseSection, VideoURL, Bootcamp, BootcampModule, BootcampClass,
\* BootcampVideo, Video, Article) is normalized: no newline, none of the
\* stripped symbols, first letter capitalized.
C24_TitlesNormalized ==
    /\ \A k \in DOMAIN a_log :
         (a_log[k].ret.exc = "none" /\ ~a_log[k].ret.val.none) =>
             Normalized(a_log[k].ret.val.title)
    /\ \A k \in DOMAIN c_sections :
         /\ Normalized(c_sections[k].title)
         /\ \A j \in DOMAIN c_sections[k].videos_url :
              Normalized(c_sections[k].videos_url[j].title)
    /\ (c_pc = "done" /\ c_out.exc = "none") => Normalized(c_out.val.title)
    /\ (u_pc = "fetched" /\ u_video.exc = "none") =>
           Normalized(u_video.val.title)
    /\ \A m \in DOMAIN all_modules :
         /\ Normalized(all_modules[m].title)
         /\ \A c \in DOMAIN all_modules[m].classes :
              /\ Normalized(all_modules[m].classes[c].title)
              /\ \A v \in DOMAIN all_modules[m].classes[c].videos :
                   Normalized(all_modules[m].classes[c].videos[v].title)

\* ------------------------------------------------------------- text helpers

\* the pieces label texts are made of
TextPieces ==
    { <<"C", "l", "a", "s", "e">>, <<"M", "o_acute", "d", "u", "l", "o">>,
      <<"1">>, <<"2">>, <<" ">>, <<"-">>, <<"a">>, <<"\n">>, <<".">> }

RECURSIVE TextsOf(_)
TextsOf(n) ==
    IF n = 0 THEN { <<>> }
    ELSE LET T == TextsOf(n - 1)
         IN  T \cup { p \o t : p \in TextPieces, t \in T }

\* inner_html() of a label, header or title element
Texts == TextsOf(MaxPieces)

\* what query_selector gives for the element a helper reads
Labels == { NoElem } \cup { Elem(t) : t \in Texts }

HelperInit ==
    /\ HelperFields("ready")
    /\ ClientIdle
    /\ OrchestratorIdle
    /\ BuilderIdle
    /\ ClassifierIdle
    /\ CourseBuilderIdle
    /\ ArticleIdle

\* helpers.clean_title(title)
CleanTitle ==
    /\ h_pc = "ready"
    /\ \E t \in Texts :
         /\ h_op' = "clean_title"
         /\ h_arg' = [text |-> t]
         /\ h_out' = clean_title(t)
    /\ h_pc' = "done"
    /\ UNCHANGED <<h_again, h_seq, h_path>>

\* helpers.clean_title on what helpers.clean_title returned
CleanTitleAgain ==
    /\ h_pc = "done"
    /\ h_op = "clean_title"
    /\ h_out.exc = "none"
    /\ h_again' = clean_title(h_out.val)
    /\ h_pc' = "again"
    /\ UNCHANGED <<h_op, h_arg, h_out, h_seq, h_path>>

\* helpers.clean_video_sequence(a_tag)
VideoSequence ==
    /\ h_pc = "ready"
    /\ \E l \in Labels :
         /\ h_op' = "clean_video_sequence"
         /\ h_arg' = l
         /\ h_seq' = clean_video_sequence(l)
    /\ h_pc' = "done"
    /\ UNCHANGED <<h_out, h_again, h_path>>

\* helpers.clean_class_sequence(a_tag)
ClassSequence ==
    /\ h_pc = "ready"
    /\ \E l \in Labels :
         /\ h_op' = "clean_class_sequence"
         /\ h_arg' = l
         /\ h_seq' = clean_class_sequence(l)
    /\ h_pc' = "done"
    /\ UNCHANGED <<h_out, h_again, h_path>>

\* helpers.clean_module_sequence(li_tag)
ModuleSequence ==
    /\ h_pc = "ready"
    /\ \E l \in Labels :
         /\ h_op' = "clean_module_sequence"
         /\ h_arg' = l
         /\ h_seq' = clean_module_sequence(l)
    /\ h_pc' = "done"
    /\ UNCHANGED <<h_out, h_again, h_path>>

\* the members of models.video.Quality, and a member the match statement of
\* quality_to_dlp_format does not name
Qualities ==
    { [name |-> "BEST", value |-> "best"],
      [name |-> "WORST", value |-> "worst"],
      [name |-> "P1080", value |-> "1080"],
      [name |-> "P720", value |-> "720"],
      [name |-> "P480", value |-> "480"],
      [name |-> "P360", value |-> "360"],
      [name |-> "other", value |-> "240"] }

\* a match statement whose resolution case leaves out Quality.P360
quality_to_dlp_format_without_P360(quality) ==
    LET height == quality.value
    IN  CASE quality.name = "BEST" -> <<"bv+ba/b">>
          [] quality.name = "WORST" -> <<"wv+wa/w">>
          [] quality.name \in {"P1080", "P720", "P480"} ->
               <<"bv[height=", height, "]+ba/b[height=", height, "]">>
          [] OTHER -> <<"bv+ba/b">>

\* helpers.quality_to_dlp_format(quality)
quality_to_dlp_format(quality) ==
    LET height == quality.value
    IN  CASE quality.name = "BEST" -> <<"bv+ba/b">>
          [] quality.name = "WORST" -> <<"wv+wa/w">>
          [] quality.name \in {"P1080", "P720", "P480", "P360"} ->
               <<"bv[height=", height, "]+ba/b[height=", height, "]">>
          [] OTHER -> <<"bv+ba/b">>

QualityFormat ==
    /\ h_pc = "ready"
    /\ \E q \in Qualities :
         /\ h_op' = "quality_to_dlp_format"
         /\ h_arg' = q
         /\ h_out' = Ok(quality_to_dlp_format(q))
    /\ h_pc' = "done"
    /\ UNCHANGED <<h_again, h_seq, h_path>>

\* titles of courses, sections, bootcamps, modules and classes in a path
PathTitles == { <<"A">>, <<"B", "b">> }

\* f"{sequence:02d}. "
PrefixName(sequence) == Format02d(sequence) \o <<".", " ">>

\* dir_path of a video of a course: consts.DOWNLOADS_DIR, "Curso - " with
\* the course title, the section's ordinal and title
CourseVideoDir(course_title, pfx_s, section_title) ==
    <<DOWNLOADS_DIR, "/">> \o <<"Curso - ">> \o course_title \o <<"/">>
        \o PrefixName(pfx_s) \o section_title

\* path of download_article(url, path_dir, sequence)
download_article_path(path_dir) ==
    IF path_dir # <<>> THEN <<DOWNLOADS_DIR, "/">> \o path_dir
    ELSE <<DOWNLOADS_DIR>>

\* path_module, path_class of the bootcamp loops
path_module(module) == PrefixName(module.sequence) \o module.title

path_class(class) == PrefixName(class.sequence) \o class.title

\* dir_path of a video of a bootcamp
BootcampVideoDir(bootcamp_title, module, class) ==
    <<DOWNLOADS_DIR, "/">> \o <<"Bootcamp - ">> \o bootcamp_title \o <<"/">>
        \o path_module(module) \o <<"/">> \o path_class(class)

\* video.download(quality=quality) of a standalone video: no dir_path and no
\* prefix_name are given
VideoDefaults == [dir |-> <<DOWNLOADS_DIR>>, prefix_name |-> <<>>]

Named(sequences, titles) ==
    { [sequence |-> n, title |-> t] : n \in sequences, t \in titles }

\* video.download(quality, dir_path, prefix_name) in the course loop
PathCourseVideo ==
    /\ h_pc = "ready"
    /\ \E course_title \in PathTitles,
          section \in Named(1..MaxOrdinal, PathTitles),
          pfx_v \in 1..MaxOrdinal :
         /\ h_op' = "course_video"
         /\ h_arg' = [course_title |-> course_title, section |-> section,
                      sequence |-> pfx_v]
         /\ h_path' = [NoPath EXCEPT
                         !.dir = CourseVideoDir(course_title,
                                     section.sequence, section.title),
                         !.name = PrefixName(pfx_v)]
    /\ h_pc' = "done"
    /\ UNCHANGED <<h_out, h_again, h_seq>>

\* download_article(url, path_dir, sequence) in the course loop
PathCourseArticle ==
    /\ h_pc = "ready"
    /\ \E course_title \in PathTitles,
          section \in Named(1..MaxOrdinal, PathTitles),
          pfx_v \in 1..MaxOrdinal, page_title \in ArticlePageTitles :
         /\ h_op' = "course_article"
         /\ h_arg' = [course_title |-> course_title, section |-> section,
                      sequence |-> pfx_v, page_title |-> page_title]
         /\ h_path' = [NoPath EXCEPT
                         !.dir = download_article_path(
                                     PrefixName(section.sequence)
                                         \o section.title),
                         !.name = ArticleTitle(page_title, pfx_v)]
    /\ h_pc' = "done"
    /\ UNCHANGED <<h_out, h_again, h_seq>>

\* video_down.download(quality, dir_path, prefix_name) in the bootcamp loop
PathBootcampVideo ==
    /\ h_pc = "ready"
    /\ \E bootcamp_title \in PathTitles,
          module \in Named(0..MaxOrdinal, PathTitles),
          class \in Named(0..MaxOrdinal, {<<"C">>}),
          sequence \in 0..MaxOrdinal :
         /\ h_op' = "bootcamp_video"
         /\ h_arg' = [bootcamp_title |-> bootcamp_title, module |-> module,
                      class |-> class, sequence |-> sequence]
         /\ h_path' = [dir |-> BootcampVideoDir(bootcamp_title, module,
                                                 class),
                        module_dir |-> path_module(module),
                        class_dir |-> path_class(class),
                        name |-> PrefixName(sequence)]
    /\ h_pc' = "done"
    /\ UNCHANGED <<h_out, h_again, h_seq>>

\* download_article(url=url) for an article URL given to the command
PathArticle ==
    /\ h_pc = "ready"
    /\ \E page_title \in ArticlePageTitles :
         /\ h_op' = "article"
         /\ h_arg' = [page_title |-> page_title]
         /\ h_path' = [NoPath EXCEPT
                         !.dir = download_article_path(<<>>),
                         !.name = ArticleTitle(page_title, 0)]
    /\ h_pc' = "done"
    /\ UNCHANGED <<h_out, h_again, h_seq>>

\* video.download(quality=quality) for a video URL given to the command
PathVideo ==
    /\ h_pc = "ready"
    /\ h_op' = "video"
    /\ h_arg' = [quality |-> "BEST"]
    /\ h_path' = [NoPath EXCEPT !.dir = VideoDefaults.dir,
                                 !.name = VideoDefaults.prefix_name]
    /\ h_pc' = "done"
    /\ UNCHANGED <<h_out, h_again, h_seq>>

\* _print_error_class: the path and file_name given to _generate_file_course
PathMarker ==
    /\ h_pc = "ready"
    /\ \E bootcamp_title \in PathTitles,
          module \in Named(0..MaxOrdinal, PathTitles),
          class \in Named(0..MaxOrdinal, PathTitles) :
         /\ h_op' = "marker"
         /\ h_arg' = [bootcamp_title |-> bootcamp_title, module |-> module,
                      class |-> class]
         /\ h_path' = [NoPath EXCEPT
                         !.dir = <<DOWNLOADS_DIR, "/">> \o <<"Bootcamp - ">>
                                     \o bootcamp_title \o <<"/">>
                                     \o PrefixName(module.sequence)
                                     \o module.title \o <<"/">>,
                         !.module_dir = PrefixName(module.sequence)
                                            \o module.title,
                         !.name = PrefixName(class.sequence) \o class.title]
    /\ h_pc' = "done"
    /\ UNCHANGED <<h_out, h_again, h_seq>>

HelperNext ==
    \/ CleanTitle /\ UNCHANGED <<ovars, bvars, uvars, cvars, avars, kvars>>
    \/ CleanTitleAgain /\ UNCHANGED <<ovars, bvars, uvars, cvars, avars, kvars>>
    \/ VideoSequence /\ UNCHANGED <<ovars, bvars, uvars, cvars, avars, kvars>>
    \/ ClassSequence /\ UNCHANGED <<ovars, bvars, uvars, cvars, avars, kvars>>
    \/ ModuleSequence /\ UNCHANGED <<ovars, bvars, uvars, cvars, avars, kvars>>
    \/ QualityFormat /\ UNCHANGED <<ovars, bvars, uvars, cvars, avars, kvars>>
    \/ PathCourseVideo /\ UNCHANGED <<ovars, bvars, uvars, cvars, avars, kvars>>
    \/ PathCourseArticle /\ UNCHANGED <<ovars, bvars, uvars, cvars, avars, kvars>>
    \/ PathBootcampVideo /\ UNCHANGED <<ovars, bvars, uvars, cvars, avars, kvars>>
    \/ PathArticle /\ UNCHANGED <<ovars, bvars, uvars, cvars, avars, kvars>>
    \/ PathVideo /\ UNCHANGED <<ovars, bvars, uvars, cvars, avars, kvars>>
    \/ PathMarker /\ UNCHANGED <<ovars, bvars, uvars, cvars, avars, kvars>>

HelperSpec == HelperInit /\ [][HelperNext]_vars

\* ------------------------------------------------------------------ Client

\* the four properties of Client; the attribute behind each is _<name>
Props == {"playwright", "browser", "context", "page"}

\* the ways out of a with block: its end, raise typer.Exit(), an exception
Ways == {"normal", "typer.Exit", "exception"}

\* a property of Client: ClientError if the attribute was never set, else
\* the attribute, whatever state the object behind it is in
property(name, attrs, live) ==
    IF name \notin attrs
    THEN [exc |-> "ClientError", live |-> FALSE]
    ELSE [exc |-> "none", live |-> name \in live]

DetailUrls ==
    { <<BASE_URL, "/videos/", "x">>, <<BASE_URL, "/cursos/", "x">>,
      <<BASE_URL, "/programas/", "x">>, <<"x">> }

\* the course pages a Client is sent to: no container, or one
ClientDoms == ContainerForest(1)

\* page.goto(url=url, wait_until=None)
Goto(page, url) == [location |-> url, gotos |-> page.gotos + 1]

\* a collector that navigates first and tests the URL afterwards
detail_page_goto_first(kind, url, page) == Goto(page, url)

\* the page after get_video_detail_sync, get_course_detail_sync or
\* get_bootcamp_detail_sync: each tests the URL, raises URLError, and only
\* then calls page.goto
detail_page(kind, url, page) ==
    IF kind = "video"
    THEN IF ~is_video_url(url) THEN page ELSE Goto(page, url)
    ELSE IF kind = "course"
    THEN LET u == clean_play_url(url)
         IN  IF u.exc # "none" THEN page
             ELSE IF ~is_course_url(u.val) THEN page
             ELSE Goto(page, u.val)
    ELSE IF ~is_bootcamp_url(url) THEN page ELSE Goto(page, url)

\* page = self.page, then the one call of the collector
ClientCall(kind, url, exc) ==
    LET p == property("page", k_attrs, k_live)
    IN  /\ k_n < MaxCalls
        /\ k_pc \in {"new", "entered"}
        /\ k_n' = k_n + 1
        /\ IF p.exc # "none"
           THEN /\ k_call' = [op |-> kind, url |-> url, before |-> k_page,
                              exc |-> p.exc, collected |-> 0]
                /\ UNCHANGED k_page
           ELSE /\ k_call' = [op |-> kind, url |-> url, before |-> k_page,
                              exc |-> exc, collected |-> 1]
                /\ k_page' = detail_page(kind, url, k_page)
        /\ UNCHANGED <<k_pc, k_attrs, k_live, k_ops, k_left, k_get>>

ClientInit ==
    /\ ClientFields("new")
    /\ OrchestratorIdle
    /\ BuilderIdle
    /\ ClassifierIdle
    /\ CourseBuilderIdle
    /\ ArticleIdle
    /\ HelperIdle

\* Client.__enter__
ClientEnter ==
    /\ k_pc = "new"
    /\ k_pc' = "entered"
    /\ k_attrs' = Props
    /\ k_live' = Props
    /\ UNCHANGED <<k_ops, k_left, k_page, k_call, k_get, k_n>>

\* the with block is left and the with statement calls Client.__exit__
ClientExit ==
    /\ k_pc = "entered"
    /\ \E way \in Ways : k_left' = way
    /\ k_pc' = "exited"
    /\ k_ops' = k_ops \o client_exit
    /\ k_live' = {}
    /\ UNCHANGED <<k_attrs, k_page, k_call, k_get, k_n>>

\* client.playwright, client.browser, client.context, client.page
ClientGet ==
    /\ k_pc \in {"new", "entered", "exited"}
    /\ \E name \in Props :
         LET r == property(name, k_attrs, k_live)
         IN  k_get' = [name |-> name, at |-> k_pc, exc |-> r.exc,
                       live |-> r.live]
    /\ UNCHANGED <<k_pc, k_attrs, k_live, k_ops, k_left, k_page, k_call, k_n>>

\* Client.video(url)
ClientVideo ==
    \E url \in DetailUrls, page \in PageStates :
        ClientCall("video", url, get_video_detail_sync(url, page).exc)

\* Client.course(url)
ClientCourse ==
    \E url \in DetailUrls, goto \in {"ok", "timeout"}, dom \in ClientDoms :
        ClientCall("course", url, get_course_detail_sync(url, goto, dom).exc)

\* Client.bootcamp(url): what get_bootcamp_detail_sync raises before
\* _get_modules, or BootcampError from the try around it, or nothing
ClientBootcamp ==
    \E url \in DetailUrls, goto \in {"ok", "timeout"},
       page_title \in BootcampPageTitles, modules \in {"none", "BootcampError"} :
        ClientCall("bootcamp", url,
                   IF BeforeModules(url, goto, page_title) # "none"
                   THEN BeforeModules(url, goto, page_title)
                   ELSE modules)

ClientNext ==
    \/ ClientEnter /\ UNCHANGED <<ovars, bvars, uvars, cvars, avars, hvars>>
    \/ ClientExit /\ UNCHANGED <<ovars, bvars, uvars, cvars, avars, hvars>>
    \/ ClientGet /\ UNCHANGED <<ovars, bvars, uvars, cvars, avars, hvars>>
    \/ ClientVideo /\ UNCHANGED <<ovars, bvars, uvars, cvars, avars, hvars>>
    \/ ClientCourse /\ UNCHANGED <<ovars, bvars, uvars, cvars, avars, hvars>>
    \/ ClientBootcamp /\ UNCHANGED <<ovars, bvars, uvars, cvars, avars, hvars>>

ClientSpec == ClientInit /\ [][ClientNext]_vars

\* ---------------------------------------------------- the helpers' results

\* C25: clean_title is idempotent for every input string, and for every
\* input, the empty string and the strings made only of whitespace, newlines
\* or stripped symbols included, it returns a value and does not raise.
C25_CleanTitleIdempotent ==
    h_op = "clean_title" =>
        /\ h_pc \in {"done", "again"} => h_out.exc = "none"
        /\ h_pc = "again" => h_again = h_out

SequenceOps ==
    {"clean_video_sequence", "clean_class_sequence", "clean_module_sequence"}

\* the match the pattern of the kind finds in the label: the module pattern
\* is the keyword with the number after it
OrdinalOf(op, label) ==
    LET t == Strip(SelectSeq(clean_new_line(label.text), NotSymbol))
    IN  IF op = "clean_class_sequence"
        THEN IF ClassNameMatch(t).matched
             THEN DigitsValue(ClassNameMatch(t).group1) ELSE 0
        ELSE LET words == IF op = "clean_video_sequence"
                          THEN VideoWords ELSE ModuleWords
                 rest == RemoveWords(t, words)
             IN  IF HasWord(t, words) /\ AllDigits(Strip(rest))
                 THEN DigitsValue(Strip(rest)) ELSE 0

\* C26: the ordinal extractors never raise: for any label they return the
\* parsed ordinal when the pattern of the kind matches and 0 otherwise, also
\* when the label element is absent, when the label has no ordinal keyword
\* and when the text after the keyword is not purely a number.
C26_OrdinalExtractorsNeverRaise ==
    (h_op \in SequenceOps /\ h_pc = "done") =>
        /\ h_seq.exc = "none"
        /\ h_seq.val = IF h_arg.present THEN OrdinalOf(h_op, h_arg) ELSE 0

\* the selector the claim gives for a quality
SelectorOf(name) ==
    CASE name = "BEST" -> <<"bv+ba/b">>
      [] name = "WORST" -> <<"wv+wa/w">>
      [] name = "P1080" -> <<"bv[height=", "1080", "]+ba/b[height=", "1080", "]">>
      [] name = "P720" -> <<"bv[height=", "720", "]+ba/b[height=", "720", "]">>
      [] name = "P480" -> <<"bv[height=", "480", "]+ba/b[height=", "480", "]">>
      [] name = "P360" -> <<"bv[height=", "360", "]+ba/b[height=", "360", "]">>
      [] OTHER -> <<"bv+ba/b">>

\* C29: quality_to_dlp_format maps Best to "bv+ba/b", Worst to "wv+wa/w",
\* each fixed resolution H (1080, 720, 480, 360) to
\* "bv[height=H]+ba/b[height=H]", and any other value to "bv+ba/b".
C29_QualitySelector ==
    (h_op = "quality_to_dlp_format" /\ h_pc = "done") =>
        h_out = Ok(SelectorOf(h_arg.name))

\* the selector of the smallest resolution has been asked for
C29_Resolution360 ==
    /\ h_op = "quality_to_dlp_format"
    /\ h_pc = "done"
    /\ h_arg.name = "P360"
    /\ h_out.val = <<"bv[height=", "360", "]+ba/b[height=", "360", "]">>

\* ------------------------------------------------------ the paths and names

HasPrefix(s, t) == Len(s) >= Len(t) /\ SubSeq(s, 1, Len(t)) = t

\* "NN. title" inside one directory level
NumberedTitle(name, title) ==
    /\ HasSuffix(name, title)
    /\ \A k \in DOMAIN name : name[k] # "/"

\* C22: every file of a course download, video or article, goes under
\* downloads/Curso - {course title}/{NN. section title}/, every video of a
\* bootcamp under downloads/Bootcamp - {title}/{NN. module}/{NN. class}/, and
\* a standalone leaf directly under downloads/ with no context directory.
C22_ContextDirectories ==
    h_pc = "done" =>
        /\ h_op \in {"course_video", "course_article"} =>
             h_path.dir =
                 <<"downloads", "/", "Curso - ">> \o h_arg.course_title
                     \o <<"/">> \o Format02d(h_arg.section.sequence)
                     \o <<".", " ">> \o h_arg.section.title
        /\ h_op = "bootcamp_video" =>
             /\ h_path.dir =
                    <<"downloads", "/", "Bootcamp - ">> \o h_arg.bootcamp_title
                        \o <<"/">> \o h_path.module_dir
                        \o <<"/">> \o h_path.class_dir
             /\ NumberedTitle(h_path.module_dir, h_arg.module.title)
             /\ NumberedTitle(h_path.class_dir, h_arg.class.title)
        /\ h_op \in {"article", "video"} => h_path.dir = <<"downloads">>

\* the ordinal prefix of a name: two digits, none for the sentinel 0
Prefixed(sequence, title) ==
    IF sequence = 0 THEN title
    ELSE Format02d(sequence) \o <<".", " ">> \o title

NoZeroPrefix(name) == ~HasPrefix(name, <<"0", "0", ".", " ">>)

\* C23: in every path and file name the program builds (module directory,
\* class directory, video file prefix, anomaly marker name, article file
\* name) the ordinal prefix is the sequence padded to two digits when the
\* sequence is not 0 and is left out when it is 0; no name starts with "00. ".
C23_NoPrefixForSentinel ==
    h_pc = "done" =>
        /\ h_op \in {"bootcamp_video", "marker"} =>
             /\ h_path.module_dir =
                    Prefixed(h_arg.module.sequence, h_arg.module.title)
             /\ NoZeroPrefix(h_path.module_dir)
        /\ h_op = "bootcamp_video" =>
             /\ h_path.class_dir =
                    Prefixed(h_arg.class.sequence, h_arg.class.title)
             /\ h_path.name = Prefixed(h_arg.sequence, <<>>)
             /\ NoZeroPrefix(h_path.class_dir)
             /\ NoZeroPrefix(h_path.name)
        /\ h_op = "marker" =>
             /\ h_path.name =
                    Prefixed(h_arg.class.sequence, h_arg.class.title)
             /\ NoZeroPrefix(h_path.name)
        /\ h_op = "course_video" =>
             h_path.name = Prefixed(h_arg.sequence, <<>>)
        /\ h_op \in {"course_article", "article"} =>
             /\ h_path.name =
                    Prefixed(IF h_op = "article" THEN 0 ELSE h_arg.sequence,
                             clean_string(clean_new_line(h_arg.page_title)))
             /\ NoZeroPrefix(h_path.name)

\* ------------------------------------------------------ the Client's session

\* C32: when get_video_detail_sync, get_course_detail_sync or
\* get_bootcamp_detail_sync rejects a URL with URLError it has done nothing
\* on the page, which is as it was before the call, and the call was made
\* once, with no retry.
C32_RejectedUrlLeavesPage ==
    k_call.exc = "URLError" =>
        /\ k_page = k_call.before
        /\ k_call.collected = 1

\* a page that was navigated by an earlier call and left where it was by a
\* call that raised URLError
C32_RejectedAfterNavigation ==
    /\ k_call.exc = "URLError"
    /\ k_call.before.gotos = 1
    /\ k_page.gotos = 1
    /\ k_page.location # k_call.url

\* C34: playwright, browser, context and page of a Client are usable only
\* inside its with block: before __enter__ and after __exit__ an access
\* raises ClientError, between the two it returns a live instance.
C34_UsableOnlyInside ==
    k_get.name # "none" =>
        IF k_get.at = "entered"
        THEN k_get.exc = "none" /\ k_get.live
        ELSE k_get.exc = "ClientError"

====
